---- MODULE Spec2Model ----
(***************************************************************************)
(* Student record systems of the repository.                               *)
(*                                                                         *)
(*   web variant      ReportCardSystem   (src/unnamed/part_000)            *)
(*   desktop variant  AttendanceSystem   (src/main.py)                     *)
(*                                                                         *)
(* Percentages are carried in hundredths of a percent (75.00% is 7500), so *)
(* that round(x, 2) and the threshold comparisons are integer arithmetic.  *)
(* Text that the code converts (str().strip(), float()) is a sequence of   *)
(* one-character strings, so the conversions are computed, not assumed.    *)
(***************************************************************************)
EXTENDS Integers, Sequences, FiniteSets, Bags, TLC

\* ------------------------------------------------------------------------
\* Bounds of the model
\* ------------------------------------------------------------------------
\* a store error (sqlite3.OperationalError) is injected at statement
\* 1..MaxFault of the upsert transaction; 0 injects none
MaxFault == 4

\* ------------------------------------------------------------------------
\* Input universes
\* ------------------------------------------------------------------------
StudentIds == {"S1", "S2"}
Names == {"Asha"}
DeptNames == {"B.Sc. Physics", "Astrology"}
\* subject codes that add_subject is called with
SubjectCodes == {"MTH01"}
\* subject codes that appear as keys of marks_data
MarkCodes == <<"PHY01", "MTH01">>
\* month keys of attendance_data
MonthKeys == <<"Jan">>

\* ------------------------------------------------------------------------
\* Python values of the payload
\* ------------------------------------------------------------------------
PyNone == [kind |-> "none"]
PyStr(s) == [kind |-> "str", s |-> s]
PyNum(n) == [kind |-> "num", n |-> n]
PyList(rows) == [kind |-> "list", rows |-> rows]
PyDict(row) == [kind |-> "dict", row |-> row]
PyText(t) == [kind |-> "text", t |-> t]

\* bool(v) of None and of text: not v is true of None and of ""
Truthy(v) == v.kind = "text" /\ v.t # ""

DigitVal == ("0" :> 0) @@ ("1" :> 1) @@ ("2" :> 2) @@ ("3" :> 3) @@ ("4" :> 4)
            @@ ("5" :> 5) @@ ("6" :> 6) @@ ("7" :> 7) @@ ("8" :> 8) @@ ("9" :> 9)

RECURSIVE LStrip(_)
LStrip(s) == IF s # <<>> /\ Head(s) = " " THEN LStrip(Tail(s)) ELSE s

RECURSIVE RStrip(_)
RStrip(s) == IF s # <<>> /\ s[Len(s)] = " " THEN RStrip(SubSeq(s, 1, Len(s) - 1)) ELSE s

\* str.strip()
Strip(s) == RStrip(LStrip(s))

RECURSIVE DigitsValue(_, _)
DigitsValue(s, acc) ==
    IF s = <<>> THEN acc ELSE DigitsValue(Tail(s), 10 * acc + DigitVal[Head(s)])

\* float(v): a number converts to itself; a string converts when, stripped,
\* it is a non-empty run of decimal digits, and raises ValueError otherwise
FloatOf(v) ==
    IF v.kind = "num" THEN [ok |-> TRUE, val |-> v.n]
    ELSE LET t == Strip(v.s)
         IN IF t # <<>> /\ \A i \in 1..Len(t) : t[i] \in DOMAIN DigitVal
            THEN [ok |-> TRUE, val |-> DigitsValue(t, 0)]
            ELSE [ok |-> FALSE, val |-> 0]

\* marks is not None and str(marks).strip() != ""
MarkPresent(v) ==
    /\ v.kind # "none"
    /\ (v.kind = "str" => Strip(v.s) # <<>>)

\* ------------------------------------------------------------------------
\* Web variant: the store of ReportCardSystem
\* ------------------------------------------------------------------------
VARIABLES
    departments,   \* table departments: set of [dept_code, dept_name]
    subjects,      \* table subjects: set of [subject_code, max_marks]
    students,      \* table students: student_id -> [name, dept_code, email]
    marks,         \* table marks: bag of [student_id, subject_code, marks]
    attendance,    \* table attendance: bag of [student_id, month, classes_held, classes_attended]
    settings,      \* table settings, the row id = 1: [smtp_email, smtp_app_password]
    last           \* the last call of the web variant and its result

webVars == <<departments, subjects, students, marks, attendance, settings, last>>

DEPARTMENTS == <<"B.A. Economics", "B.A. English", "B.A. Tamil", "B.Sc. Botany",
                 "B.Sc. Chemistry", "B.Sc. Mathematics", "B.Sc. Physics",
                 "B.Sc. Computer Science", "B.Sc. Marine Biology", "B.Com.",
                 "B.Com. (CA)", "Other">>

MONTHS == <<"Jan", "Feb", "Mar", "Apr", "May", "Jun",
            "Jul", "Aug", "Sep", "Oct", "Nov", "Dec">>

\* dept[:3].upper() of the names of DEPARTMENTS
Upper3 == <<"B.A", "B.A", "B.A", "B.S", "B.S", "B.S", "B.S", "B.S", "B.S",
            "B.C", "B.C", "OTH">>

\* str(i + 1).zfill(2) for the indices of DEPARTMENTS
ZFill2 == <<"01", "02", "03", "04", "05", "06", "07", "08", "09", "10", "11", "12">>

\* the rows _populate_default_departments inserts
DefaultDepartments ==
    { [dept_code |-> Upper3[i] \o ZFill2[i], dept_name |-> DEPARTMENTS[i]] :
        i \in 1..Len(DEPARTMENTS) }

\* an initialisation that drops the table and fills it again
InitDatabaseDropsFirst(depts, fault) ==
    IF fault THEN {} ELSE DefaultDepartments

\* init_database on the departments table: CREATE TABLE IF NOT EXISTS, and
\* _populate_default_departments when SELECT COUNT(*) is 0; fault is an
\* sqlite3.Error, after which the process exits with nothing committed
init_database(depts, fault) ==
    IF fault THEN depts
    ELSE IF Cardinality(depts) = 0 THEN depts \cup DefaultDepartments
    ELSE depts

\* the fallback taken to be the code of the department named Other
DeptCodeOrOther(depts, dept_name) ==
    IF \E d \in depts : d.dept_name = dept_name
    THEN (CHOOSE d \in depts : d.dept_name = dept_name).dept_code
    ELSE "OTH12"

\* next((d[0] for d in get_all_departments() if d[1] == dept_name), "OTH99")
DeptCodeOf(depts, dept_name) ==
    IF \E d \in depts : d.dept_name = dept_name
    THEN (CHOOSE d \in depts : d.dept_name = dept_name).dept_code
    ELSE "OTH99"

\* ---- the statements of one connection's open transaction ----------------
\* tx: the connection's view [students, marks, attendance], the number n of
\* statements that completed and the exception err that left the try block
\* ("" while none has).

RowsOf(table, sid) == { r \in BagToSet(table) : r.student_id = sid }

\* a statement runs only while no exception is pending, and raises
\* OperationalError when it is the statement the fault is injected at
Runs(tx, fault) == tx.err = "" /\ tx.n + 1 # fault
Faulted(tx, fault) ==
    IF tx.err = "" /\ tx.n + 1 = fault
    THEN [tx EXCEPT !.err = "OperationalError"]
    ELSE tx

\* UPDATE students SET ... WHERE student_id = ?: writes no row for a new student
UpdateStudentOnly(tx, fault, sid, row) ==
    IF Runs(tx, fault)
    THEN [tx EXCEPT !.n = @ + 1,
                    !.students = [x \in DOMAIN tx.students |->
                                     IF x = sid THEN row ELSE tx.students[x]]]
    ELSE Faulted(tx, fault)

\* INSERT OR REPLACE INTO students (...) VALUES (...)
InsertOrReplaceStudent(tx, fault, sid, row) ==
    IF Runs(tx, fault)
    THEN [tx EXCEPT !.n = @ + 1,
                    !.students = [x \in DOMAIN tx.students \cup {sid} |->
                                     IF x = sid THEN row ELSE tx.students[x]]]
    ELSE Faulted(tx, fault)

\* the DELETE FROM marks statement left out
KeepMarks(tx, fault, sid) ==
    IF Runs(tx, fault) THEN [tx EXCEPT !.n = @ + 1] ELSE Faulted(tx, fault)

\* DELETE FROM marks WHERE student_id = ?
DeleteMarks(tx, fault, sid) ==
    IF Runs(tx, fault)
    THEN [tx EXCEPT !.n = @ + 1,
                    !.marks = [r \in BagToSet(tx.marks) \ RowsOf(tx.marks, sid)
                                 |-> tx.marks[r]]]
    ELSE Faulted(tx, fault)

\* the DELETE FROM attendance statement left out
KeepAttendance(tx, fault, sid) ==
    IF Runs(tx, fault) THEN [tx EXCEPT !.n = @ + 1] ELSE Faulted(tx, fault)

\* DELETE FROM attendance WHERE student_id = ?
DeleteAttendance(tx, fault, sid) ==
    IF Runs(tx, fault)
    THEN [tx EXCEPT !.n = @ + 1,
                    !.attendance = [r \in BagToSet(tx.attendance) \ RowsOf(tx.attendance, sid)
                                      |-> tx.attendance[r]]]
    ELSE Faulted(tx, fault)

\* the INSERT run twice on a table without the UNIQUE constraint
InsertMarkTwice(tx, fault, sid, code, val) ==
    IF Runs(tx, fault)
    THEN [tx EXCEPT !.n = @ + 1,
                    !.marks = @ (+) SetToBag({[student_id |-> sid, subject_code |-> code,
                                               marks |-> val]})
                                (+) SetToBag({[student_id |-> sid, subject_code |-> code,
                                               marks |-> val]})]
    ELSE Faulted(tx, fault)

\* INSERT INTO marks (student_id, subject_code, marks) VALUES (?, ?, ?)
\* UNIQUE(student_id, subject_code) is enforced; the FOREIGN KEY clauses are
\* not, since the connection never turns PRAGMA foreign_keys on
InsertMark(tx, fault, sid, code, val) ==
    IF Runs(tx, fault)
    THEN IF \E r \in BagToSet(tx.marks) : r.student_id = sid /\ r.subject_code = code
         THEN [tx EXCEPT !.err = "IntegrityError"]
         ELSE [tx EXCEPT !.n = @ + 1,
                         !.marks = @ (+) SetToBag({[student_id |-> sid,
                                                    subject_code |-> code,
                                                    marks |-> val]})]
    ELSE Faulted(tx, fault)

\* INSERT INTO attendance (student_id, month, classes_held, classes_attended)
InsertAttendance(tx, fault, sid, month, held, attended) ==
    IF Runs(tx, fault)
    THEN IF \E r \in BagToSet(tx.attendance) : r.student_id = sid /\ r.month = month
         THEN [tx EXCEPT !.err = "IntegrityError"]
         ELSE [tx EXCEPT !.n = @ + 1,
                         !.attendance = @ (+) SetToBag({[student_id |-> sid,
                                                         month |-> month,
                                                         classes_held |-> held,
                                                         classes_attended |-> attended]})]
    ELSE Faulted(tx, fault)

\* ---- add_or_update_student ----------------------------------------------
\* dict.get(key, default) on a payload object
DictGet(d, key, default) == IF key \in DOMAIN d THEN d[key] ELSE default

\* int(v), for the values the payload carries
IntOf(v) == FloatOf(v)

\* The value of the one element of a singleton set: TLC evaluates e once in
\* { F(x) : x \in {e} }, however often F uses x
The(S) == CHOOSE x \in S : TRUE

\* one turn of: for code, marks in marks_data.items(): ... INSERT INTO marks
MarkItem(tx, fault, sid, it) ==
    IF ~MarkPresent(it.value) THEN tx
    ELSE IF ~FloatOf(it.value).ok THEN [tx EXCEPT !.err = "ValueError"]
    ELSE InsertMark(tx, fault, sid, it.key, FloatOf(it.value).val)

RECURSIVE InsertMarks(_, _, _, _)
InsertMarks(tx, fault, sid, items) ==
    IF items = <<>> \/ tx.err # "" THEN tx
    ELSE The({ InsertMarks(t, fault, sid, Tail(items)) :
                 t \in {MarkItem(tx, fault, sid, Head(items))} })

\* the month's row written whenever held >= 0
AttendanceItemZeroStored(tx, fault, sid, it) ==
    LET h == IntOf(DictGet(it.value, "held", PyNum(0)))
        a == IntOf(DictGet(it.value, "attended", PyNum(0)))
    IN IF ~h.ok \/ ~a.ok THEN [tx EXCEPT !.err = "ValueError"]
       ELSE IF h.val >= 0
       THEN InsertAttendance(tx, fault, sid, it.key, h.val, a.val)
       ELSE tx

\* one turn of: for month, data in attendance_data.items(): ... INSERT INTO attendance
AttendanceItem(tx, fault, sid, it) ==
    LET h == IntOf(DictGet(it.value, "held", PyNum(0)))
        a == IntOf(DictGet(it.value, "attended", PyNum(0)))
    IN IF ~h.ok \/ ~a.ok THEN [tx EXCEPT !.err = "ValueError"]
       ELSE IF h.val > 0
       THEN InsertAttendance(tx, fault, sid, it.key, h.val, a.val)
       ELSE tx

RECURSIVE InsertAttendances(_, _, _, _)
InsertAttendances(tx, fault, sid, items) ==
    IF items = <<>> \/ tx.err # "" THEN tx
    ELSE The({ InsertAttendances(t, fault, sid, Tail(items)) :
                 t \in {AttendanceItem(tx, fault, sid, Head(items))} })

\* conn.commit()
Commit(tx, fault) ==
    IF Runs(tx, fault) THEN [tx EXCEPT !.n = @ + 1] ELSE Faulted(tx, fault)

\* a connection in autocommit mode: what ran before the exception stays
OutcomeAutocommit(db, tx) ==
    [ok |-> tx.err = "", err |-> tx.err, n |-> tx.n, students |-> tx.students,
     marks |-> tx.marks, attendance |-> tx.attendance]

\* return True after the commit; otherwise the except clauses return False and
\* conn.close() in the finally clause discards the open transaction
Outcome(db, tx) ==
    IF tx.err = ""
    THEN [ok |-> TRUE, err |-> "", n |-> tx.n, students |-> tx.students,
          marks |-> tx.marks, attendance |-> tx.attendance]
    ELSE [ok |-> FALSE, err |-> tx.err, n |-> tx.n, students |-> db.students,
          marks |-> db.marks, attendance |-> db.attendance]

\* the whole handler on the committed store db, for the call arguments a,
\* with a store error injected at statement number fault (0: none)
add_or_update_student(db, a, fault) ==
    LET sid == a.student_id
        dept_code == DeptCodeOf(db.departments, a.dept_name)
        t0 == {[students |-> db.students, marks |-> db.marks,
                attendance |-> db.attendance, n |-> 0, err |-> ""]}
        t1 == { InsertOrReplaceStudent(t, fault, sid,
                    [name |-> a.name, dept_code |-> dept_code, email |-> a.email]) :
                    t \in t0 }
        t2 == { DeleteMarks(t, fault, sid) : t \in t1 }
        t3 == { DeleteAttendance(t, fault, sid) : t \in t2 }
        t4 == { InsertMarks(t, fault, sid, a.marks_data) : t \in t3 }
        t5 == { InsertAttendances(t, fault, sid, a.attendance_data) : t \in t4 }
        t6 == { Commit(t, fault) : t \in t5 }
    IN The({ Outcome(db, t) : t \in t6 })

\* add_subject: INSERT INTO subjects; subject_code is UNIQUE
add_subject(subjs, code, max_marks) ==
    IF \E s \in subjs : s.subject_code = code
    THEN [ok |-> FALSE, subjects |-> subjs]
    ELSE [ok |-> TRUE,
          subjects |-> subjs \cup {[subject_code |-> code, max_marks |-> max_marks]}]

\* ---- POST /students ------------------------------------------------------
\* the text of a sequence of characters
RECURSIVE StrOf(_)
StrOf(s) == IF s = <<>> THEN "" ELSE Head(s) \o StrOf(Tail(s))

\* payload.get(key, "").strip()
PayloadText(payload, key) == StrOf(Strip(DictGet(payload, key, <<>>)))

\* the arguments api_create_or_update_student passes on: the text fields
\* stripped, a missing field read as "" and a missing mapping as {}
ApiArgs(payload) ==
    [student_id |-> PayloadText(payload, "student_id"),
     name |-> PayloadText(payload, "name"),
     dept_name |-> PayloadText(payload, "dept_name"),
     email |-> PayloadText(payload, "email"),
     marks_data |-> DictGet(payload, "marks_data", <<>>),
     attendance_data |-> DictGet(payload, "attendance_data", <<>>)]

\* api_create_or_update_student: no field is checked before the store is called
api_create_or_update_student(db, payload, fault) ==
    add_or_update_student(db, ApiArgs(payload), fault)

\* ---- get_all_students_summary -------------------------------------------
RECURSIVE SumVal(_)
SumVal(S) ==
    IF S = {} THEN 0
    ELSE LET x == CHOOSE y \in S : TRUE IN x.val + SumVal(S \ {x})

\* f"{num / den * 100:.2f}%" for den > 0, in hundredths of a percent
FormatPercent(num, den) ==
    LET q == (num * 10000) \div den
        r == (num * 10000) % den
    IN IF 2 * r < den THEN q
       ELSE IF 2 * r > den THEN q + 1
       ELSE IF q % 2 = 0 THEN q ELSE q + 1

\* SELECT SUM(classes_held), SUM(classes_attended) FROM attendance WHERE student_id = ?
\* and att_percent = (attended / held * 100) if held > 0 else 0.0
att_percent(att, sid) ==
    LET rows == RowsOf(att, sid)
        held == SumVal({ [row |-> r, val |-> r.classes_held * CopiesIn(r, att)] : r \in rows })
        attended == SumVal({ [row |-> r, val |-> r.classes_attended * CopiesIn(r, att)] :
                               r \in rows })
    IN IF rows # {} /\ held > 0 THEN FormatPercent(attended, held) ELSE 0

\* the sums taken over every Mark row of the student, as a LEFT JOIN gives
\* the marks and an INNER JOIN the max_marks
MarkPercentAllRows(ms, subjs, sid) ==
    LET joined == { j \in [m : RowsOf(ms, sid), s : subjs] :
                      j.s.subject_code = j.m.subject_code }
        total_marks == SumVal({ [row |-> m, val |-> m.marks * CopiesIn(m, ms)] :
                                  m \in RowsOf(ms, sid) })
        total_max == SumVal({ [row |-> j, val |-> j.s.max_marks * CopiesIn(j.m, ms)] :
                                j \in joined })
    IN IF joined # {} /\ total_max > 0 THEN FormatPercent(total_marks, total_max) ELSE 0

\* SELECT SUM(m.marks), SUM(s.max_marks) FROM marks m JOIN subjects s ON ...
\* WHERE m.student_id = ?  and
\* mark_percent = (total_marks / total_max * 100) if total_max > 0 else 0.0
mark_percent(ms, subjs, sid) ==
    LET joined == { j \in [m : RowsOf(ms, sid), s : subjs] :
                      j.s.subject_code = j.m.subject_code }
        total_marks == SumVal({ [row |-> j, val |-> j.m.marks * CopiesIn(j.m, ms)] :
                                  j \in joined })
        total_max == SumVal({ [row |-> j, val |-> j.s.max_marks * CopiesIn(j.m, ms)] :
                                j \in joined })
    IN IF joined # {} /\ total_max > 0 THEN FormatPercent(total_marks, total_max) ELSE 0

\* get_all_students_summary: one row for each pair of a student row and the
\* departments row with its dept_code (FROM students s JOIN departments d),
\* with the two percentages appended; the rows as a set, the order left out
get_all_students_summary(db, subjs) ==
    { [student_id |-> sid, name |-> db.students[sid].name, dept_name |-> d.dept_name,
       att_percent |-> att_percent(db.attendance, sid),
       mark_percent |-> mark_percent(db.marks, subjs, sid)] :
        <<sid, d>> \in { <<x, y>> \in (DOMAIN db.students) \X db.departments :
                           db.students[x].dept_code = y.dept_code } }

\* ---- e-mail of the web variant ------------------------------------------
\* save_email_settings: UPDATE settings SET ... WHERE id = 1, after the
\* route /ui/settings/email stripped the two form fields
save_email_settings(smtp_email, smtp_app_password) ==
    [smtp_email |-> PyText(StrOf(Strip(smtp_email))),
     smtp_app_password |-> PyText(StrOf(Strip(smtp_app_password)))]

\* get_student_details_and_data: the student joined to its department, or None
get_student_details_and_data(db, sid) ==
    IF sid \in DOMAIN db.students
       /\ \E d \in db.departments : d.dept_code = db.students[sid].dept_code
    THEN PyDict(db.students[sid])
    ELSE PyNone

\* what email_report_to_student returns, with the steps it took on the way:
\* "report" for a generated PDF, "smtp" for a submission to the mail server
MailResult(ok, msg, steps) == [ok |-> ok, msg |-> msg, steps |-> steps]

\* the report generated before the settings are looked at
EmailReportChecksLate(db, st, sid, installed, smtp_ok) ==
    LET student == get_student_details_and_data(db, sid)
    IN IF student = PyNone THEN MailResult(FALSE, "Student not found.", {})
       ELSE IF student.row.email = "" THEN MailResult(FALSE, "Student email is empty.", {})
       ELSE IF ~installed
       THEN MailResult(FALSE, "reportlab not installed; cannot generate PDF.", {})
       ELSE IF ~Truthy(st.smtp_email) \/ ~Truthy(st.smtp_app_password)
       THEN MailResult(FALSE, "Email settings not configured.", {"report"})
       ELSE IF ~smtp_ok THEN MailResult(FALSE, "Error sending email", {"report", "smtp"})
       ELSE MailResult(TRUE, "Report emailed successfully.", {"report", "smtp"})

\* email_report_to_student; installed is REPORTLAB_INSTALLED, smtp_ok whether
\* the mail server accepts the login and the message
email_report_to_student(db, st, sid, installed, smtp_ok) ==
    LET student == get_student_details_and_data(db, sid)
    IN IF ~Truthy(st.smtp_email) \/ ~Truthy(st.smtp_app_password)
       THEN MailResult(FALSE, "Email settings not configured.", {})
       ELSE IF student = PyNone THEN MailResult(FALSE, "Student not found.", {})
       ELSE IF student.row.email = "" THEN MailResult(FALSE, "Student email is empty.", {})
       ELSE IF ~installed
       THEN MailResult(FALSE, "reportlab not installed; cannot generate PDF.", {})
       ELSE IF ~smtp_ok THEN MailResult(FALSE, "Error sending email", {"report", "smtp"})
       ELSE MailResult(TRUE, "Report emailed successfully.", {"report", "smtp"})

\* ------------------------------------------------------------------------
\* Desktop variant: AttendanceSystem
\* ------------------------------------------------------------------------
VARIABLES
    desk_students,  \* table students, in rowid order: sequence of [student_id,
                    \*   name, email, year, department, total_classes, present_classes,
                    \*   absent_classes, percentage, status]
    desk_last,      \* the last store-changing call of the desktop variant and
                    \*   its result
    desk_view,      \* the last reading call of the desktop variant and the
                    \*   value it returned
    running,        \* the desktop operation in progress and its place in the
                    \*   retry loop, when the loop is followed attempt by attempt
    locked,         \* whether another connection holds the store locked
    email_settings, \* table email_settings: the rows with id = 1, each
                    \*   [sender_email, sender_password, threshold]
    sender,         \* AttendanceGUI.sender_email and .sender_password
    desk_mail       \* the last mail operation of the desktop variant and its result

retryVars == <<running, locked>>

deskMailVars == <<email_settings, sender, desk_mail>>

deskVars == <<desk_students, desk_last, desk_view, running, locked,
              email_settings, sender, desk_mail>>

\* round(num / den, 0) for den > 0, ties to even, as round() gives for the
\* quotients of the model (class counts below 160, where the float quotient
\* times 100 lies on the same side of every tie as the exact one)
RoundHalfEven(num, den) ==
    LET q == num \div den
        r == num % den
    IN IF 2 * r < den THEN q
       ELSE IF 2 * r > den THEN q + 1
       ELSE IF q % 2 = 0 THEN q ELSE q + 1

\* round((present / total) * 100, 2), in hundredths of a percent; the
\* division raises ZeroDivisionError when total is 0
PyPercent(total, present) ==
    IF total = 0 THEN [raised |-> TRUE, val |-> 0]
    ELSE IF total > 0
    THEN [raised |-> FALSE, val |-> RoundHalfEven(present * 10000, total)]
    ELSE [raised |-> FALSE, val |-> RoundHalfEven((0 - present) * 10000, 0 - total)]

\* the guard written total >= 0
PercentageGuardAtZero(total, present) ==
    IF total >= 0 THEN PyPercent(total, present) ELSE [raised |-> FALSE, val |-> 0]

\* calculate_percentage
calculate_percentage(total, present) ==
    IF total > 0 THEN PyPercent(total, present) ELSE [raised |-> FALSE, val |-> 0]

\* the lower bounds taken as exclusive
StatusExclusive(percentage) ==
    IF percentage > 7500 THEN "Good"
    ELSE IF percentage > 6000 THEN "Warning"
    ELSE "Critical"

\* a status whose upper cutoff is the stored threshold_percentage
StatusByThreshold(percentage) ==
    LET good == IF email_settings = {} THEN 7500
                ELSE 100 * (CHOOSE r \in email_settings : TRUE).threshold
    IN IF percentage >= good THEN "Good"
       ELSE IF percentage >= 6000 THEN "Warning"
       ELSE "Critical"

\* get_status, on hundredths of a percent
get_status(percentage) ==
    IF percentage >= 7500 THEN "Good"
    ELSE IF percentage >= 6000 THEN "Warning"
    ELSE "Critical"

\* the thresholds tested low to high
GradeLowToHigh(percentage) ==
    IF percentage >= 4000 THEN "C"
    ELSE IF percentage >= 5000 THEN "B"
    ELSE IF percentage >= 6000 THEN "B+"
    ELSE IF percentage >= 7000 THEN "A"
    ELSE IF percentage >= 8000 THEN "A+"
    ELSE IF percentage >= 9000 THEN "O"
    ELSE "F"

\* calculate_grade (web variant), on hundredths of a percent
calculate_grade(percentage) ==
    IF percentage >= 9000 THEN "O"
    ELSE IF percentage >= 8000 THEN "A+"
    ELSE IF percentage >= 7000 THEN "A"
    ELSE IF percentage >= 6000 THEN "B+"
    ELSE IF percentage >= 5000 THEN "B"
    ELSE IF percentage >= 4000 THEN "C"
    ELSE "F"

max_retries == 3

\* the row add_student and update_student compute from their arguments;
\* created_date is datetime.now() of add_student, a column UPDATE leaves alone
DeskRow(a, created_date) ==
    LET percentage == calculate_percentage(a.total, a.present).val
    IN [student_id |-> a.student_id, name |-> a.name, email |-> a.email, year |-> a.year,
        department |-> a.department, total_classes |-> a.total,
        present_classes |-> a.present, absent_classes |-> a.absent,
        percentage |-> percentage, status |-> get_status(percentage),
        created_date |-> created_date]

\* except Exception as e: return False, str(e)
DeskFailure(tbl, msg, attempts) ==
    [ok |-> FALSE, msg |-> msg, attempts |-> attempts, students |-> tbl]

\* the retry loop shared by the desktop operations: the store answers
\* "database is locked" on the first busy attempts; attempt counts from 0.
\* Yields the attempt that got through, or max_retries when none did.
RECURSIVE AttemptThrough(_, _)
AttemptThrough(attempt, busy) ==
    IF attempt >= busy THEN attempt
    ELSE IF attempt < max_retries - 1 THEN AttemptThrough(attempt + 1, busy)
    ELSE max_retries

\* the student_id values of the rows of the table
IdsIn(tbl) == { tbl[i].student_id : i \in 1..Len(tbl) }

\* the INSERT on a table whose student_id is not a key
AddStudentNoKey(tbl, a, busy) ==
    LET k == AttemptThrough(0, busy)
    IN IF calculate_percentage(a.total, a.present).raised
       THEN DeskFailure(tbl, "division by zero", 1)
       ELSE IF k = max_retries
       THEN DeskFailure(tbl, "database is locked", max_retries)
       ELSE [ok |-> TRUE, msg |-> "added", attempts |-> k + 1,
             students |-> Append(tbl, DeskRow(a, a.today))]

\* add_student: INSERT INTO students; student_id is the PRIMARY KEY
add_student(tbl, a, busy) ==
    LET k == AttemptThrough(0, busy)
    IN IF calculate_percentage(a.total, a.present).raised
       THEN DeskFailure(tbl, "division by zero", 1)
       ELSE IF k = max_retries
       THEN DeskFailure(tbl, "database is locked", max_retries)
       ELSE IF a.student_id \in IdsIn(tbl)
       THEN DeskFailure(tbl, "Student ID already exists!", k + 1)
       ELSE [ok |-> TRUE, msg |-> "added", attempts |-> k + 1,
             students |-> Append(tbl, DeskRow(a, a.today))]

\* an UPDATE that writes the new counts and leaves percentage and status
UpdateKeepsStatus(tbl, a, busy) ==
    LET k == AttemptThrough(0, busy)
    IN IF k = max_retries
       THEN DeskFailure(tbl, "database is locked", max_retries)
       ELSE [ok |-> TRUE, msg |-> "updated", attempts |-> k + 1,
             students |-> [i \in 1..Len(tbl) |->
                             IF tbl[i].student_id = a.student_id
                             THEN [DeskRow(a, tbl[i].created_date)
                                     EXCEPT !.percentage = tbl[i].percentage,
                                            !.status = tbl[i].status]
                             ELSE tbl[i]]]

\* an UPDATE that sets created_date too
UpdateStampsDate(tbl, a, busy) ==
    LET k == AttemptThrough(0, busy)
    IN IF calculate_percentage(a.total, a.present).raised
       THEN DeskFailure(tbl, "division by zero", 1)
       ELSE IF k = max_retries
       THEN DeskFailure(tbl, "database is locked", max_retries)
       ELSE [ok |-> TRUE, msg |-> "updated", attempts |-> k + 1,
             students |-> [i \in 1..Len(tbl) |->
                             IF tbl[i].student_id = a.student_id
                             THEN DeskRow(a, a.today)
                             ELSE tbl[i]]]

\* update_student: UPDATE students SET ... WHERE student_id=?
update_student(tbl, a, busy) ==
    LET k == AttemptThrough(0, busy)
    IN IF calculate_percentage(a.total, a.present).raised
       THEN DeskFailure(tbl, "division by zero", 1)
       ELSE IF k = max_retries
       THEN DeskFailure(tbl, "database is locked", max_retries)
       ELSE [ok |-> TRUE, msg |-> "updated", attempts |-> k + 1,
             students |-> [i \in 1..Len(tbl) |->
                             IF tbl[i].student_id = a.student_id
                             THEN DeskRow(a, tbl[i].created_date)
                             ELSE tbl[i]]]

\* delete_student: DELETE FROM students WHERE student_id=?
delete_student(tbl, sid, busy) ==
    LET k == AttemptThrough(0, busy)
    IN IF k = max_retries
       THEN DeskFailure(tbl, "database is locked", max_retries)
       ELSE [ok |-> TRUE, msg |-> "deleted", attempts |-> k + 1,
             students |-> SelectSeq(tbl, LAMBDA r : r.student_id # sid)]

\* ---- the reading operations ---------------------------------------------
\* the place of a name in the order SQLite compares text in (byte by byte)
NameRank == ("Asha" :> 1) @@ ("Devi" :> 2) @@ ("Ravi" :> 3)

\* the characters of the names
NameText == ("Asha" :> <<"A", "s", "h", "a">>) @@ ("Devi" :> <<"D", "e", "v", "i">>)
            @@ ("Ravi" :> <<"R", "a", "v", "i">>)

\* LIKE compares the ASCII letters without regard to case
LowerOf(c) == IF c = "A" THEN "a" ELSE IF c = "D" THEN "d" ELSE IF c = "R" THEN "r" ELSE c
Lower(t) == [i \in 1..Len(t) |-> LowerOf(t[i])]

\* name LIKE '%term%'
Like(name, term) ==
    \E i \in 0..(Len(NameText[name]) - Len(term)) :
        SubSeq(Lower(NameText[name]), i + 1, i + Len(term)) = Lower(term)

\* ORDER BY: the rows by ascending key, rows of equal key in row order
ByName(r) == NameRank[r.name]
ByPercentageDesc(r) == 0 - r.percentage

\* the value ORDER BY compares: "name", or "percentage DESC"
SortKey(r, column) == IF column = "name" THEN ByName(r) ELSE ByPercentageDesc(r)

OrderBy(rows, column) ==
    LET n == Len(rows)
        pos(i) == 1 + Cardinality({ j \in 1..n :
                        \/ SortKey(rows[j], column) < SortKey(rows[i], column)
                        \/ (SortKey(rows[j], column) = SortKey(rows[i], column) /\ j < i) })
    IN [p \in 1..n |-> rows[CHOOSE i \in 1..n : pos(i) = p]]


\* return [] / return None in the except clauses, after the last attempt
ReadFailure(value) == [value |-> value, attempts |-> max_retries, exhausted |-> TRUE]

\* what a reading operation returns: value when an attempt gets through, and
\* empty when the store is locked through every attempt
ReadThrough(busy, value, empty) ==
    IF AttemptThrough(0, busy) = max_retries THEN ReadFailure(empty)
    ELSE [value |-> value, attempts |-> AttemptThrough(0, busy) + 1, exhausted |-> FALSE]

\* the SELECT of get_all_students without its ORDER BY clause
GetAllStudentsRowOrder(tbl, busy) == ReadThrough(busy, PyList(tbl), PyList(<<>>))

\* get_all_students: SELECT * FROM students ORDER BY name
get_all_students(tbl, busy) ==
    ReadThrough(busy, PyList(OrderBy(tbl, "name")), PyList(<<>>))

\* get_students_by_year_dept: "All" leaves the column unfiltered
get_students_by_year_dept(tbl, year, department, busy) ==
    ReadThrough(busy,
                PyList(OrderBy(SelectSeq(tbl, LAMBDA r :
                                   /\ (year # "All" => r.year = year)
                                   /\ (department # "All" => r.department = department)),
                               "name")),
                PyList(<<>>))

\* search_student: SELECT * FROM students WHERE student_id=?, fetchone()
search_student(tbl, sid, busy) ==
    ReadThrough(busy,
                IF sid \in IdsIn(tbl)
                THEN PyDict(tbl[CHOOSE i \in 1..Len(tbl) :
                                   /\ tbl[i].student_id = sid
                                   /\ \A j \in 1..(i - 1) : tbl[j].student_id # sid])
                ELSE PyNone,
                PyNone)

\* search_by_name: SELECT * FROM students WHERE name LIKE ?, with no ORDER BY:
\* the rows come in row order
search_by_name(tbl, term, busy) ==
    ReadThrough(busy, PyList(SelectSeq(tbl, LAMBDA r : Like(r.name, term))), PyList(<<>>))

\* filter_by_status: ... ORDER BY percentage DESC
filter_by_status(tbl, status, busy) ==
    ReadThrough(busy,
                PyList(OrderBy(SelectSeq(tbl, LAMBDA r : status # "All" => r.status = status),
                               "percentage DESC")),
                PyList(<<>>))

\* ---- the retry loop, attempt by attempt ---------------------------------
\* no operation in progress
Idle == [op |-> "none", arg |-> <<>>, attempt |-> 0, phase |-> "idle", tries |-> 0,
         sleeps |-> 0, met |-> 0]

\* one more attempt allowed after the last one
MayRetryOnceMore(attempt) == attempt < max_retries

\* "locked" in str(e) and attempt < max_retries - 1
MayRetry(attempt) == attempt < max_retries - 1

\* the operations that change the store, and those that read it
WriteOps == {"add_student", "update_student", "delete_student"}
ReadOps == {"get_all_students", "search_student"}

\* the body of the try block of an operation, on a store that is not locked
TryBody(op, arg, tbl) ==
    IF op = "add_student" THEN add_student(tbl, arg, 0)
    ELSE IF op = "update_student" THEN update_student(tbl, arg, 0)
    ELSE IF op = "delete_student" THEN delete_student(tbl, arg.student_id, 0)
    ELSE IF op = "get_all_students" THEN get_all_students(tbl, 0)
    ELSE search_student(tbl, arg.student_id, 0)

\* ---- e-mail of the desktop variant --------------------------------------
\* no mail operation yet
NoMail == [op |-> "none", outcome |-> "", reads |-> 0, reports |-> 0, submissions |-> 0,
           success_count |-> 0, fail_count |-> 0, list |-> <<>>, done |-> <<>>]

\* AttendanceSystem.save_email_settings: INSERT OR REPLACE INTO email_settings
\* VALUES (1, ...); the table is left as it is when the store stays locked
desk_save_email_settings(tbl, sender_email, sender_password, threshold, busy) ==
    IF AttemptThrough(0, busy) = max_retries THEN tbl
    ELSE {[sender_email |-> sender_email, sender_password |-> sender_password,
           threshold |-> threshold]}

\* AttendanceSystem.get_email_settings: the row, or None (also when the store
\* stays locked)
desk_get_email_settings(tbl, busy) ==
    IF AttemptThrough(0, busy) = max_retries \/ tbl = {} THEN PyNone
    ELSE PyDict(CHOOSE r \in tbl : TRUE)

\* [s for s in students if s['status'] == status_filter], then
\* [s for s in students if s['email'] and s['email'].strip()]
Recipients(rows, status_filter) ==
    SelectSeq(rows, LAMBDA r : /\ (status_filter # "All" => r.status = status_filter)
                               /\ r.email # "")

\* send_bulk_emails up to its loop: the message box it ends with, or
\* "running" with the list of recipients (students_with_email) to loop over
\*   not configured  "Configure email settings first in the Settings tab!"
\*   no recipients   "No students with email addresses found!"
\*   cancelled       the confirmation was answered with No
send_bulk_emails(tbl, snd, year, department, status_filter, confirm, busy) ==
    LET rows == get_students_by_year_dept(tbl, year, department, busy).value.rows
        to == Recipients(rows, status_filter)
        start == [NoMail EXCEPT !.op = "send_bulk_emails", !.reads = 1]
    IN IF snd.sender_email = "" \/ snd.sender_password = ""
       THEN [NoMail EXCEPT !.op = "send_bulk_emails", !.outcome = "not configured"]
       ELSE IF to = <<>> THEN [start EXCEPT !.outcome = "no recipients"]
       ELSE IF ~confirm THEN [start EXCEPT !.outcome = "cancelled"]
       ELSE [start EXCEPT !.outcome = "running",
                          !.list = [i \in 1..Len(to) |-> to[i].student_id]]

\* the recipient the loop is at
Recipient(run) == run.list[Len(run.done) + 1]

\* a loop body that leaves a failed recipient out of the counts
SendOneDropsFailure(run, tbl, pdf_ok, smtp_ok) ==
    LET sid == Recipient(run)
        found == search_student(tbl, sid, 0).value # PyNone
        at == [run EXCEPT !.done = Append(@, sid), !.reads = @ + 1]
    IN IF ~found \/ ~pdf_ok THEN at
       ELSE IF ~smtp_ok
       THEN [at EXCEPT !.reports = @ + 1, !.submissions = @ + 1]
       ELSE [at EXCEPT !.reports = @ + 1, !.submissions = @ + 1, !.success_count = @ + 1]

\* the body of the loop for one recipient: generate_pdf_report reads the
\* student again and writes the PDF, then the message is submitted to the
\* mail server; whatever fails is counted in fail_count
SendOne(run, tbl, pdf_ok, smtp_ok) ==
    LET sid == Recipient(run)
        found == search_student(tbl, sid, 0).value # PyNone
        at == [run EXCEPT !.done = Append(@, sid), !.reads = @ + 1]
    IN IF ~found \/ ~pdf_ok THEN [at EXCEPT !.fail_count = @ + 1]
       ELSE IF ~smtp_ok
       THEN [at EXCEPT !.reports = @ + 1, !.submissions = @ + 1, !.fail_count = @ + 1]
       ELSE [at EXCEPT !.reports = @ + 1, !.submissions = @ + 1, !.success_count = @ + 1]

\* the body of the loop once the window is gone: the report and the
\* submission are made as before, email_log.insert raises TclError before
\* either count is incremented, and raises again in the except clause
SendOneUncounted(run, tbl, pdf_ok, smtp_ok) ==
    [SendOne(run, tbl, pdf_ok, smtp_ok) EXCEPT !.success_count = run.success_count,
                                               !.fail_count = run.fail_count]

\* self.root.update() after each recipient handles the pending events of
\* the window, the close button among them:
\*   open       nothing closes the window
\*   raised     the call raises, the window having been closed
\*   destroyed  on_closing destroys the window and the call returns
\* after the last recipient of an open window the summary is shown
UpdateDisplay(run, window) ==
    IF window = "open"
    THEN IF Len(run.done) = Len(run.list) THEN [run EXCEPT !.outcome = "complete"] ELSE run
    ELSE [run EXCEPT !.outcome = window]

\* ------------------------------------------------------------------------
\* Calls at work at the same time, each on its own connection
\* ------------------------------------------------------------------------
VARIABLES
    sessions,   \* connection -> the call it is in, statement by statement
    writer      \* the connection whose transaction holds the write lock; 0: none
                \* Abandoned: a connection that its call returned without closing

concVars == <<sessions, writer>>

\* two connections that write and one that reads
Connections == 1..3

\* what a call returns: (ok, msg) of the writing calls, with the place of
\* its commit among the commits, and the three values of
\* get_student_details_and_data
NoResult == [ok |-> FALSE, msg |-> "", at |-> 0, student |-> PyNone, marks |-> PyNone,
             attendance |-> PyNone]

\* no transaction open
NoTx == [students |-> <<>>, marks |-> EmptyBag, attendance |-> EmptyBag, n |-> 0,
         err |-> ""]

\* a connection in no call; snaps are the committed stores, as the reading
\* call would return them, since the call began; began is what the call met
\* when it was made: the calls at work and the student_id values stored
NoSession == [op |-> "none", arg |-> PyNone, phase |-> "idle", pc |-> 0, attempt |-> 0,
              tx |-> NoTx, ret |-> NoResult, snaps |-> {},
              began |-> [peers |-> {}, ids |-> {}]]

\* the holder of the write lock when the connection holding it belongs to no
\* call any more: add_student returns from except sqlite3.IntegrityError
\* without conn.close(), the transaction of the failed INSERT still open
Abandoned == 0 - 1

\* ---- add_or_update_student, statement by statement -----------------------
\* the implicit BEGIN of the first INSERT: the connection's view of the store
BeginTx(db) ==
    [students |-> db.students, marks |-> db.marks, attendance |-> db.attendance,
     n |-> 0, err |-> ""]

\* the statements of add_or_update_student in their order; the two loops
\* are one step each
UpsertStatement(tx, db, a, pc) ==
    IF pc = 1
    THEN InsertOrReplaceStudent(tx, 0, a.student_id,
             [name |-> a.name, dept_code |-> DeptCodeOf(db.departments, a.dept_name),
              email |-> a.email])
    ELSE IF pc = 2 THEN DeleteMarks(tx, 0, a.student_id)
    ELSE IF pc = 3 THEN DeleteAttendance(tx, 0, a.student_id)
    ELSE IF pc = 4 THEN InsertMarks(tx, 0, a.student_id, a.marks_data)
    ELSE IF pc = 5 THEN InsertAttendances(tx, 0, a.student_id, a.attendance_data)
    ELSE Commit(tx, 0)

\* the store with the tables of a transaction written to it
Committed(db, tx) ==
    [db EXCEPT !.students = tx.students, !.marks = tx.marks,
               !.attendance = tx.attendance]

\* the call returns
Returned(s, ok, msg) ==
    [s EXCEPT !.phase = "done", !.tx = NoTx, !.ret = [NoResult EXCEPT !.ok = ok,
                                                                      !.msg = msg]]

\* a connection in autocommit mode: every statement is written to the store
\* as it runs and no lock is held between statements
UpsertStepAutocommit(db, s, holder, pid, timed_out) ==
    LET t == UpsertStatement(BeginTx(db), db, s.arg, s.pc)
    IN IF t.err # ""
       THEN [db |-> db, holder |-> holder, s |-> Returned(s, FALSE, t.err)]
       ELSE IF s.pc = 6
       THEN [db |-> db, holder |-> holder, s |-> Returned(s, TRUE, "saved")]
       ELSE [db |-> Committed(db, t), holder |-> holder, s |-> [s EXCEPT !.pc = @ + 1]]

\* the next statement of add_or_update_student on connection pid. The first
\* INSERT takes the write lock, which the connection keeps until it commits
\* or closes; while another connection holds it the statement waits, and
\* raises "database is locked" when the timeout of the connection runs out.
\* An exception ends the call, conn.close() rolling the transaction back.
UpsertStep(db, s, holder, pid, timed_out) ==
    LET t == UpsertStatement(IF s.pc = 1 THEN BeginTx(db) ELSE s.tx, db, s.arg, s.pc)
    IN IF holder \notin {0, pid}
       THEN IF timed_out
            THEN [db |-> db, holder |-> holder,
                  s |-> Returned(s, FALSE, "database is locked")]
            ELSE [db |-> db, holder |-> holder, s |-> s]
       ELSE IF t.err # ""
       THEN [db |-> db, holder |-> 0, s |-> Returned(s, FALSE, t.err)]
       ELSE IF s.pc = 6
       THEN [db |-> Committed(db, t), holder |-> 0, s |-> Returned(s, TRUE, "saved")]
       ELSE [db |-> db, holder |-> pid, s |-> [s EXCEPT !.pc = @ + 1, !.tx = t]]

\* ---- get_student_details_and_data, statement by statement ----------------
\* SELECT ... FROM marks m JOIN subjects s ... WHERE m.student_id = ?
SelectMarks(ms, subjs, sid) ==
    { [subject_code |-> j.m.subject_code, max_marks |-> j.s.max_marks,
       marks |-> j.m.marks] :
        j \in { x \in [m : RowsOf(ms, sid), s : subjs] :
                    x.s.subject_code = x.m.subject_code } }

\* SELECT month, classes_held, classes_attended FROM attendance WHERE student_id = ?
SelectAttendance(att, sid) ==
    { [month |-> r.month, classes_held |-> r.classes_held,
       classes_attended |-> r.classes_attended] : r \in RowsOf(att, sid) }

\* the three values read from one state of the store
ReadAtOnce(db, subjs, sid) ==
    IF get_student_details_and_data(db, sid) = PyNone THEN NoResult
    ELSE [NoResult EXCEPT !.student = get_student_details_and_data(db, sid),
                          !.marks = PyList(SelectMarks(db.marks, subjs, sid)),
                          !.attendance = PyList(SelectAttendance(db.attendance, sid))]

\* the next SELECT of get_student_details_and_data: each is a read of the
\* committed store of its own, the connection having no transaction open
DetailsStep(db, subjs, s) ==
    IF s.pc = 1
    THEN IF get_student_details_and_data(db, s.arg) = PyNone
         THEN [s EXCEPT !.phase = "done"]
         ELSE [s EXCEPT !.pc = 2, !.ret.student = get_student_details_and_data(db, s.arg)]
    ELSE IF s.pc = 2
    THEN [s EXCEPT !.pc = 3, !.ret.marks = PyList(SelectMarks(db.marks, subjs, s.arg))]
    ELSE [s EXCEPT !.phase = "done",
                   !.ret.attendance = PyList(SelectAttendance(db.attendance, s.arg))]

\* ---- add_student, statement by statement -------------------------------
\* the statements of one attempt of add_student and the except clauses:
\*   pc 1  the INSERT: it takes the write lock, or the wait for the lock runs
\*         out (database is locked), or the student_id is stored already
\*   pc 2  conn.commit(); conn.close(); return True
\*   pc 3  time.sleep(0.5); continue
AddStep(tbl, s, holder, pid, timed_out, collected) ==
    IF s.pc = 1
    THEN IF calculate_percentage(s.arg.total, s.arg.present).raised
         THEN [students |-> tbl, holder |-> holder,
               s |-> Returned(s, FALSE, "division by zero")]
         ELSE IF timed_out
         THEN IF MayRetry(s.attempt)
              THEN [students |-> tbl, holder |-> holder, s |-> [s EXCEPT !.pc = 3]]
              ELSE [students |-> tbl, holder |-> holder,
                    s |-> Returned(s, FALSE, "database is locked")]
         ELSE IF s.arg.student_id \in IdsIn(tbl)
         THEN [students |-> tbl, holder |-> IF collected THEN 0 ELSE Abandoned,
               s |-> Returned(s, FALSE, "Student ID already exists!")]
         ELSE [students |-> tbl, holder |-> pid,
               s |-> [s EXCEPT !.pc = 2,
                               !.tx.students = Append(tbl, DeskRow(s.arg, s.arg.today))]]
    ELSE IF s.pc = 2
    THEN [students |-> s.tx.students, holder |-> 0, s |-> Returned(s, TRUE, "added")]
    ELSE [students |-> tbl, holder |-> holder,
          s |-> [s EXCEPT !.pc = 1, !.attempt = @ + 1]]

\* ------------------------------------------------------------------------
\* The pure functions, called on their own
\* ------------------------------------------------------------------------
VARIABLES
    call,   \* the function called and its arguments
    ret     \* its return value; "pending" before the call

fnVars == <<call, ret>>

vars == <<departments, subjects, students, marks, attendance, settings, last,
          desk_students, desk_last, desk_view, running, locked,
          email_settings, sender, desk_mail, sessions, writer, call, ret>>

\* ------------------------------------------------------------------------
\* Inputs
\* ------------------------------------------------------------------------
\* every dict over a subset of keys (in the order of keys) with values in vals,
\* as the sequence of its items
RECURSIVE DictsOver(_, _)
DictsOver(keys, vals) ==
    IF keys = <<>> THEN {<<>>}
    ELSE LET rest == DictsOver(Tail(keys), vals)
         IN rest \cup { <<[key |-> Head(keys), value |-> v]>> \o r : v \in vals, r \in rest }

\* values of marks_data: null, " ", "80", "7x"
MarkInputs == {PyNone, PyStr(<<" ">>), PyStr(<<"8", "0">>), PyStr(<<"7", "x">>)}

\* values of attendance_data: {}, {held: 0, attended: 0}, {held: 20, attended: 18}
EmptyDict == [k \in {} |-> PyNone]
AttInputs == {EmptyDict,
              [held |-> PyNum(0), attended |-> PyNum(0)],
              [held |-> PyNum(20), attended |-> PyNum(18)]}

\* marks_data: PHY01 with "80", then MTH01 with every value
MarksData ==
    { p \o m : p \in DictsOver(<<MarkCodes[1]>>, {PyStr(<<"8", "0">>)}),
               m \in DictsOver(<<MarkCodes[2]>>, MarkInputs) }

\* the requests for S1 range over every payload; S2 is the other student of
\* the store, saved with no detail rows or with one row of each kind
UpsertArgs ==
    [student_id : {"S1"}, name : Names, dept_name : DeptNames, email : {""},
     marks_data : MarksData, attendance_data : DictsOver(MonthKeys, AttInputs)]
    \cup
    { [student_id |-> "S2", name |-> "Asha", dept_name |-> "B.Sc. Physics", email |-> "",
       marks_data |-> <<>>, attendance_data |-> <<>>],
      [student_id |-> "S2", name |-> "Asha", dept_name |-> "B.Sc. Physics", email |-> "",
       marks_data |-> <<[key |-> "MTH01", value |-> PyStr(<<"8", "0">>)]>>,
       attendance_data |-> <<[key |-> "Jan",
                              value |-> [held |-> PyNum(20), attended |-> PyNum(18)]]>>] }

MaxMarksInputs == {100}

\* ---- the requests of the portal (POST /students, POST /subjects) ---------
TextS1 == <<"S", "1">>
TextS2 == <<" ", "S", "2">>
TextAsha == <<"A", "s", "h", "a">>
TextRavi == <<"R", "a", "v", "i", " ">>
TextPhysics == <<"B", ".", "S", "c", ".", " ", "P", "h", "y", "s", "i", "c", "s">>
TextAstrology == <<"A", "s", "t", "r", "o", "l", "o", "g", "y">>

\* marks_data with "80" for PHY01 and "70" for MTH01, each present or not
PortalMarks ==
    { p \o m : p \in DictsOver(<<"PHY01">>, {PyStr(<<"8", "0">>)}),
               m \in DictsOver(<<"MTH01">>, {PyStr(<<"7", "0">>)}) }

\* attendance_data: none, 18 of 20 for Jan, and that with 10 of 20 for Feb
AttJan == <<[key |-> "Jan", value |-> [held |-> PyNum(20), attended |-> PyNum(18)]]>>
AttFeb == <<[key |-> "Feb", value |-> [held |-> PyNum(20), attended |-> PyNum(10)]]>>
PortalAttendance == {<<>>, AttJan, AttJan \o AttFeb}

\* JSON bodies of POST /students: S1 in a department that exists, with every
\* combination of detail rows; S1 and S2 under a department name that does
\* not exist; a body without student_id and a blank name; a body without name
PortalPayloads ==
    [student_id : {TextS1}, name : {TextAsha}, dept_name : {TextPhysics},
     marks_data : PortalMarks, attendance_data : PortalAttendance]
    \cup
    { [student_id |-> TextS1, name |-> TextAsha, dept_name |-> TextAstrology,
       marks_data |-> <<[key |-> "PHY01", value |-> PyStr(<<"8", "0">>)]>>,
       attendance_data |-> AttJan],
      [student_id |-> TextS2, name |-> TextRavi, dept_name |-> TextAstrology,
       marks_data |-> <<[key |-> "MTH01", value |-> PyStr(<<"7", "0">>)]>>],
      [name |-> <<" ">>, dept_name |-> TextPhysics,
       marks_data |-> <<[key |-> "PHY01", value |-> PyStr(<<"8", "0">>)]>>],
      [student_id |-> TextS1, dept_name |-> TextPhysics] }

\* bodies of POST /subjects: the code and max_marks
PortalSubjects ==
    { [code |-> "PHY01", max_marks |-> 100], [code |-> "PHY01", max_marks |-> 0 - 100],
      [code |-> "MTH01", max_marks |-> 100], [code |-> "MTH01", max_marks |-> 0] }

\* class counts given to the desktop operations: S1 with every count, S2,
\* the other student of the store, with one row
MaxClasses == 3
\* the dates the clock shows when a call is made
Dates == {"2024-01-01", "2024-01-02"}
DeskNames == {"Asha"}
DeskArgs ==
    [student_id : {"S1"}, name : DeskNames, email : {""}, year : {"I"},
     department : {"Physics"}, total : (0 - 1)..MaxClasses, present : 0..MaxClasses,
     absent : {0}, today : Dates]
    \cup {[student_id |-> "S2", name |-> "Ravi", email |-> "", year |-> "II",
           department |-> "Physics", total |-> 2, present |-> 1, absent |-> 1,
           today |-> "2024-01-02"]}

\* the students the reading operations are tried on: three names, one of
\* them with two attendance records
ViewIds == {"S1", "S2", "S3"}
ViewArgs ==
    [student_id : {"S1"}, name : {"Asha"}, email : {""}, year : {"I"},
     department : {"Physics"}, total : {4}, present : {3, 4}, absent : {0},
     today : {"2024-01-01"}]
    \cup {[student_id |-> "S2", name |-> "Ravi", email |-> "", year |-> "II",
           department |-> "Physics", total |-> 4, present |-> 4, absent |-> 0,
           today |-> "2024-01-01"],
          [student_id |-> "S3", name |-> "Devi", email |-> "", year |-> "I",
           department |-> "Maths", total |-> 4, present |-> 2, absent |-> 2,
           today |-> "2024-01-01"]}
ViewYears == {"All", "I"}
ViewDepartments == {"All", "Physics"}
ViewTerms == {<<"a">>, <<"r", "A">>, <<"x">>}
ViewStatuses == {"All", "Good"}
\* attempts of a call that meet a locked store: none, or all
ViewBusy == {0, max_retries}

\* the arguments of the operations followed attempt by attempt
RetryArgs ==
    { [student_id |-> "S1", name |-> "Asha", email |-> "", year |-> "I",
       department |-> "Physics", total |-> 4, present |-> 3, absent |-> 1,
       today |-> "2024-01-01"] }

\* ---- the requests and entries of the mail operations --------------------
TextMail == <<"a", "@", "x">>
TextSecret == <<" ", "p", "w">>

\* bodies of POST /students: S1 with and without an e-mail address
MailPayloads ==
    { [student_id |-> TextS1, name |-> TextAsha, dept_name |-> TextPhysics,
       email |-> TextMail],
      [student_id |-> TextS1, name |-> TextAsha, dept_name |-> TextPhysics] }

\* bodies of POST /students between restarts: a department of the list,
\* one that is not in it, and attendance of a month that is no month
InitPayloads ==
    MailPayloads \cup
    { [student_id |-> TextS2, name |-> TextRavi, dept_name |-> TextAstrology],
      [student_id |-> TextS2, name |-> TextRavi, dept_name |-> TextPhysics,
       attendance_data |->
           <<[key |-> "Jan", value |-> [held |-> PyNum(20), attended |-> PyNum(18)]],
             [key |-> "Smarch", value |-> [held |-> PyNum(20), attended |-> PyNum(10)]]>>] }

\* the form of /ui/settings/email and the entries of the Settings tab
Text75 == PyStr(<<"7", "5">>)
MailForms ==
    { [email |-> TextMail, password |-> TextSecret, threshold |-> Text75],
      [email |-> TextMail, password |-> <<" ">>, threshold |-> Text75] }

\* the student of the desktop store, with an e-mail address
MailDeskArgs ==
    { [student_id |-> "S1", name |-> "Asha", email |-> "a@x", year |-> "I",
       department |-> "Physics", total |-> 4, present |-> 2, absent |-> 2,
       today |-> "2024-01-01"] }

\* what root.update() meets: see UpdateDisplay
Windows == {"open", "raised", "destroyed"}

\* the students of a bulk run: two with an e-mail address, one without
BulkDeskArgs ==
    { [student_id |-> "S1", name |-> "Ravi", email |-> "r@x", year |-> "I",
       department |-> "Physics", total |-> 4, present |-> 2, absent |-> 2,
       today |-> "2024-01-01"],
      [student_id |-> "S2", name |-> "Asha", email |-> "a@x", year |-> "I",
       department |-> "Physics", total |-> 4, present |-> 4, absent |-> 0,
       today |-> "2024-01-01"],
      [student_id |-> "S3", name |-> "Devi", email |-> "", year |-> "I",
       department |-> "Physics", total |-> 4, present |-> 4, absent |-> 0,
       today |-> "2024-01-01"] }

\* the Settings tab filled in completely
BulkForms == { [email |-> TextMail, password |-> TextSecret, threshold |-> Text75] }

\* the Settings tab with thresholds below and above the cutoffs of
\* get_status, and one that is no number
ThresholdForms ==
    [email : {TextMail}, password : {TextSecret},
     threshold : {PyStr(<<"5", "0">>), PyStr(<<"9", "0">>), PyStr(<<"7", "x">>)}]

\* students at 50, 75 and 100 per cent
ThresholdArgs ==
    [student_id : {"S1", "S2"}, name : {"Asha"}, email : {""}, year : {"I"},
     department : {"Physics"}, total : {4}, present : {2, 3, 4}, absent : {0},
     today : {"2024-01-01"}]

\* the arguments of the upserts at work together: one student, two
\* payloads that differ in every field, and one whose marks raise ValueError
SharedArgs1 ==
    { [student_id |-> "S1", name |-> "Asha", dept_name |-> "B.Sc. Physics",
       email |-> "a@x",
       marks_data |-> <<[key |-> "PHY01", value |-> PyStr(<<"8", "0">>)]>>,
       attendance_data |-> AttJan],
      [student_id |-> "S1", name |-> "Asha", dept_name |-> "B.Sc. Physics",
       email |-> "a@x",
       marks_data |-> <<[key |-> "PHY01", value |-> PyStr(<<"7", "x">>)]>>,
       attendance_data |-> AttJan] }
\* the students the two application processes add: the first one S1 and
\* S2, the second one S2 under another name
SharedDeskArgs1 ==
    { [student_id |-> "S1", name |-> "Asha", email |-> "", year |-> "I",
       department |-> "Physics", total |-> 4, present |-> 3, absent |-> 1,
       today |-> "2024-01-01"],
      [student_id |-> "S2", name |-> "Ravi", email |-> "", year |-> "II",
       department |-> "Physics", total |-> 4, present |-> 4, absent |-> 0,
       today |-> "2024-01-01"] }
SharedDeskArgs2 ==
    { [student_id |-> "S2", name |-> "Devi", email |-> "", year |-> "II",
       department |-> "Physics", total |-> 4, present |-> 2, absent |-> 2,
       today |-> "2024-01-02"] }

SharedArgs2 ==
    { [student_id |-> "S1", name |-> "Ravi", dept_name |-> "B.Sc. Mathematics",
       email |-> "r@x",
       marks_data |-> <<[key |-> "PHY01", value |-> PyStr(<<"7", "0">>)]>>,
       attendance_data |-> AttFeb] }

\* percentages (hundredths) and class counts the pure functions are called with
MaxPct == 10000
MaxTotal == 40
PctInputs == (0 - 100)..MaxPct
Calls ==
    [fn : {"get_status", "calculate_grade"}, p : PctInputs, total : {0}, present : {0}]
    \cup [fn : {"calculate_percentage"}, p : {0}, total : 0..MaxTotal, present : 0..MaxTotal]

\* ------------------------------------------------------------------------
\* Initial state: both stores as their constructors leave them
\* ------------------------------------------------------------------------
NoCall == [fn |-> "none", p |-> 0, total |-> 0, present |-> 0]
NoRet == [done |-> FALSE, raised |-> FALSE, label |-> "", val |-> 0]

InitWeb ==
    /\ departments = DefaultDepartments
    /\ subjects = {}
    /\ students = <<>>
    /\ marks = EmptyBag
    /\ attendance = EmptyBag
    /\ settings = [smtp_email |-> PyNone, smtp_app_password |-> PyNone]
    /\ last = [op |-> "init", sid |-> "", ok |-> TRUE, err |-> "", n |-> 0,
               notes |-> {}]

InitDesk ==
    /\ desk_students = <<>>
    /\ desk_last = [op |-> "init", sid |-> "", ok |-> TRUE, msg |-> "", attempts |-> 0]
    /\ desk_view = [op |-> "init", arg |-> <<>>, value |-> PyNone, attempts |-> 0,
                    exhausted |-> FALSE]
    /\ running = Idle
    /\ locked = FALSE
    /\ email_settings = {}
    /\ sender = [sender_email |-> "", sender_password |-> ""]
    /\ desk_mail = NoMail

InitSessions ==
    /\ sessions = [pid \in Connections |-> NoSession]
    /\ writer = 0

Init ==
    /\ InitWeb
    /\ InitDesk
    /\ InitSessions
    /\ call = NoCall
    /\ ret = NoRet

InitFn ==
    /\ InitWeb
    /\ InitDesk
    /\ InitSessions
    /\ call \in Calls
    /\ ret = NoRet

\* ------------------------------------------------------------------------
\* Actions
\* ------------------------------------------------------------------------
Store == [departments |-> departments, students |-> students, marks |-> marks,
          attendance |-> attendance]

\* what a successful upsert met and did, kept with the call's result:
\*   replaced   the student had detail rows before the call
\*   dropped    a detail row stored before the call has no row with its key after it
\*   same       the call stored the student and detail rows that were already stored
\*   zero_held  the payload had a month entry with no held value or held = 0
DetailKeys(ms, as, sid) ==
    { <<"mark", r.subject_code>> : r \in RowsOf(ms, sid) }
    \cup { <<"att", r.month>> : r \in RowsOf(as, sid) }

UpsertNotes(a, r) ==
    LET sid == a.student_id
        before == DetailKeys(marks, attendance, sid)
        after == DetailKeys(r.marks, r.attendance, sid)
    IN (IF before # {} THEN {"replaced"} ELSE {})
       \cup (IF before \ after # {} THEN {"dropped"} ELSE {})
       \cup (IF /\ before # {}
                /\ r.students = students /\ r.marks = marks /\ r.attendance = attendance
             THEN {"same"} ELSE {})
       \cup (IF \E i \in 1..Len(a.attendance_data) :
                   DictGet(a.attendance_data[i].value, "held", PyNum(0)) = PyNum(0)
             THEN {"zero_held"} ELSE {})

Upsert(a, fault) ==
    \E r \in {add_or_update_student(Store, a, fault)} :
    LET sid == a.student_id
    IN /\ students' = r.students
       /\ marks' = r.marks
       /\ attendance' = r.attendance
       /\ last' = [op |-> "upsert", sid |-> sid, ok |-> r.ok, err |-> r.err,
                   n |-> IF r.ok THEN 0 ELSE r.n,
                   notes |-> IF r.ok THEN UpsertNotes(a, r) ELSE {}]
       /\ UNCHANGED <<departments, subjects, settings>>
       /\ UNCHANGED deskVars
       /\ UNCHANGED fnVars
       /\ UNCHANGED concVars

\* the application is started again on the store: ReportCardSystem()
InitDatabase(fault) ==
    /\ departments' = init_database(departments, fault)
    /\ last' = [op |-> "init_database", sid |-> "", ok |-> ~fault, err |-> "", n |-> 0,
                notes |-> {}]
    /\ UNCHANGED <<subjects, students, marks, attendance, settings>>
    /\ UNCHANGED deskVars
    /\ UNCHANGED fnVars
    /\ UNCHANGED concVars

AddSubject(code, max_marks) ==
    \E r \in {add_subject(subjects, code, max_marks)} :
       /\ subjects' = r.subjects
       /\ last' = [op |-> "add_subject", sid |-> "", ok |-> r.ok, err |-> "", n |-> 0,
                   notes |-> {}]
       /\ UNCHANGED <<departments, students, marks, attendance, settings>>
       /\ UNCHANGED deskVars
       /\ UNCHANGED fnVars
       /\ UNCHANGED concVars

\* POST /students
ApiCreateOrUpdateStudent(payload, fault) ==
    \E r \in {api_create_or_update_student(Store, payload, fault)} :
    LET a == ApiArgs(payload)
    IN /\ students' = r.students
       /\ marks' = r.marks
       /\ attendance' = r.attendance
       /\ last' = [op |-> "post_students", sid |-> a.student_id, ok |-> r.ok,
                   err |-> r.err, n |-> IF r.ok THEN 0 ELSE r.n,
                   notes |-> IF r.ok THEN UpsertNotes(a, r) ELSE {}]
       /\ UNCHANGED <<departments, subjects, settings>>
       /\ UNCHANGED deskVars
       /\ UNCHANGED fnVars
       /\ UNCHANGED concVars

\* get_all_students_summary reads the store; n is the number of rows returned
GetAllStudentsSummary ==
    /\ last' = [op |-> "summary", sid |-> "", ok |-> TRUE, err |-> "",
                n |-> Cardinality(get_all_students_summary(Store, subjects)),
                notes |-> {}]
    /\ UNCHANGED <<departments, subjects, students, marks, attendance, settings>>
    /\ UNCHANGED deskVars
    /\ UNCHANGED fnVars
    /\ UNCHANGED concVars

DeskResult(op, sid, r) ==
    /\ desk_students' = r.students
    /\ desk_last' = [op |-> op, sid |-> sid, ok |-> r.ok, msg |-> r.msg,
                     attempts |-> r.attempts]
    /\ UNCHANGED desk_view
    /\ UNCHANGED retryVars
    /\ UNCHANGED deskMailVars
    /\ UNCHANGED webVars
    /\ UNCHANGED fnVars
    /\ UNCHANGED concVars

AddStudent(a, busy) ==
    \E r \in {add_student(desk_students, a, busy)} :
        DeskResult("add_student", a.student_id, r)

UpdateStudent(a, busy) ==
    \E r \in {update_student(desk_students, a, busy)} :
        DeskResult("update_student", a.student_id, r)

DeleteStudent(sid, busy) ==
    \E r \in {delete_student(desk_students, sid, busy)} :
        DeskResult("delete_student", sid, r)

ViewResult(op, arg, r) ==
    /\ desk_view' = [op |-> op, arg |-> arg, value |-> r.value, attempts |-> r.attempts,
                     exhausted |-> r.exhausted]
    /\ UNCHANGED <<desk_students, desk_last>>
    /\ UNCHANGED retryVars
    /\ UNCHANGED deskMailVars
    /\ UNCHANGED webVars
    /\ UNCHANGED fnVars
    /\ UNCHANGED concVars

GetAllStudents(busy) ==
    \E r \in {get_all_students(desk_students, busy)} :
        ViewResult("get_all_students", <<>>, r)

GetStudentsByYearDept(year, department, busy) ==
    \E r \in {get_students_by_year_dept(desk_students, year, department, busy)} :
        ViewResult("get_students_by_year_dept", <<year, department>>, r)

SearchStudent(sid, busy) ==
    \E r \in {search_student(desk_students, sid, busy)} :
        ViewResult("search_student", <<sid>>, r)

SearchByName(term, busy) ==
    \E r \in {search_by_name(desk_students, term, busy)} :
        ViewResult("search_by_name", <<StrOf(term)>>, r)

FilterByStatus(status, busy) ==
    \E r \in {filter_by_status(desk_students, status, busy)} :
        ViewResult("filter_by_status", <<status>>, r)

\* ---- a desktop operation, one step of its retry loop at a time -----------
\* the call enters: for attempt in range(max_retries)
StartCall(op, arg) ==
    /\ running.phase = "idle"
    /\ running' = [Idle EXCEPT !.op = op, !.arg = arg, !.phase = "try"]
    /\ UNCHANGED <<desk_students, desk_last, desk_view, locked>>
    /\ UNCHANGED deskMailVars
    /\ UNCHANGED webVars
    /\ UNCHANGED fnVars
    /\ UNCHANGED concVars

\* an attempt on a locked store: sqlite3.OperationalError("database is locked");
\* the except clause sleeps before the next attempt or returns the failure
AttemptLocked ==
    /\ running.phase = "try"
    /\ locked
    /\ IF MayRetry(running.attempt)
       THEN /\ running' = [running EXCEPT !.phase = "sleep", !.tries = @ + 1, !.met = @ + 1]
            /\ UNCHANGED <<desk_last, desk_view>>
       ELSE /\ running' = [running EXCEPT !.phase = "done", !.tries = @ + 1, !.met = @ + 1]
            /\ IF running.op \in WriteOps
               THEN /\ desk_last' = [op |-> running.op, sid |-> running.arg.student_id,
                                     ok |-> FALSE, msg |-> "database is locked",
                                     attempts |-> running.tries + 1]
                    /\ UNCHANGED desk_view
               ELSE /\ desk_view' = [op |-> running.op, arg |-> <<running.arg.student_id>>,
                                     value |-> IF running.op = "search_student"
                                               THEN PyNone ELSE PyList(<<>>),
                                     attempts |-> running.tries + 1, exhausted |-> TRUE]
                    /\ UNCHANGED desk_last
    /\ UNCHANGED <<desk_students, locked>>
    /\ UNCHANGED deskMailVars
    /\ UNCHANGED webVars
    /\ UNCHANGED fnVars
    /\ UNCHANGED concVars

\* an attempt on a store that is not locked: the try block runs to its return
AttemptThroughStore ==
    /\ running.phase = "try"
    /\ ~locked
    /\ running' = [running EXCEPT !.phase = "done", !.tries = @ + 1]
    /\ \E r \in {TryBody(running.op, running.arg, desk_students)} :
          IF running.op \in WriteOps
          THEN /\ desk_students' = r.students
               /\ desk_last' = [op |-> running.op, sid |-> running.arg.student_id,
                                ok |-> r.ok, msg |-> r.msg, attempts |-> running.tries + 1]
               /\ UNCHANGED desk_view
          ELSE /\ desk_view' = [op |-> running.op, arg |-> <<running.arg.student_id>>,
                                value |-> r.value, attempts |-> running.tries + 1,
                                exhausted |-> FALSE]
               /\ UNCHANGED <<desk_students, desk_last>>
    /\ UNCHANGED locked
    /\ UNCHANGED deskMailVars
    /\ UNCHANGED webVars
    /\ UNCHANGED fnVars
    /\ UNCHANGED concVars

\* time.sleep(0.5); continue
SleepThenRetry ==
    /\ running.phase = "sleep"
    /\ running' = [running EXCEPT !.phase = "try", !.attempt = @ + 1, !.sleeps = @ + 1]
    /\ UNCHANGED <<desk_students, desk_last, desk_view, locked>>
    /\ UNCHANGED deskMailVars
    /\ UNCHANGED webVars
    /\ UNCHANGED fnVars
    /\ UNCHANGED concVars

\* the call has returned
FinishCall ==
    /\ running.phase = "done"
    /\ running' = Idle
    /\ UNCHANGED <<desk_students, desk_last, desk_view, locked>>
    /\ UNCHANGED deskMailVars
    /\ UNCHANGED webVars
    /\ UNCHANGED fnVars
    /\ UNCHANGED concVars

\* another connection takes or releases the lock on the store
OtherConnection ==
    /\ locked' = ~locked
    /\ UNCHANGED <<desk_students, desk_last, desk_view, running>>
    /\ UNCHANGED deskMailVars
    /\ UNCHANGED webVars
    /\ UNCHANGED fnVars
    /\ UNCHANGED concVars

\* ---- mail operations ----------------------------------------------------
\* POST /ui/settings/email
SaveEmailSettings(form) ==
    /\ settings' = save_email_settings(form.email, form.password)
    /\ last' = [op |-> "save_email_settings", sid |-> "", ok |-> TRUE, err |-> "",
                n |-> 0, notes |-> {}]
    /\ UNCHANGED <<departments, subjects, students, marks, attendance>>
    /\ UNCHANGED deskVars
    /\ UNCHANGED fnVars
    /\ UNCHANGED concVars

\* POST /ui/students/<student_id>/send-email
EmailReportToStudent(sid, installed, smtp_ok) ==
    \E r \in {email_report_to_student(Store, settings, sid, installed, smtp_ok)} :
       /\ last' = [op |-> "email_report_to_student", sid |-> sid, ok |-> r.ok,
                   err |-> r.msg, n |-> 0, notes |-> r.steps]
       /\ UNCHANGED <<departments, subjects, students, marks, attendance, settings>>
       /\ UNCHANGED deskVars
       /\ UNCHANGED fnVars
       /\ UNCHANGED concVars

\* save_email_config: the fields of the Settings tab go to the GUI object,
\* and to the store when both are filled
SaveEmailConfig(form, busy) ==
    LET sender_email == StrOf(Strip(form.email))
        sender_password == StrOf(Strip(form.password))
        threshold == IF FloatOf(form.threshold).ok THEN FloatOf(form.threshold).val ELSE 75
    IN /\ desk_mail.outcome \notin {"running", "destroyed"}
       /\ sender' = [sender_email |-> sender_email, sender_password |-> sender_password]
       /\ email_settings' =
             IF sender_email # "" /\ sender_password # ""
             THEN desk_save_email_settings(email_settings, sender_email,
                                           sender_password, threshold, busy)
             ELSE email_settings
       /\ desk_mail' = [NoMail EXCEPT !.op = "save_email_config"]
       /\ UNCHANGED <<desk_students, desk_last, desk_view>>
       /\ UNCHANGED retryVars
       /\ UNCHANGED webVars
       /\ UNCHANGED fnVars
       /\ UNCHANGED concVars

\* AttendanceGUI.__init__: the application is opened again and reads the
\* stored settings
OpenApplication(busy) ==
    \E r \in {desk_get_email_settings(email_settings, busy)} :
       /\ desk_mail.outcome \notin {"running", "destroyed"}
       /\ sender' = IF r = PyNone THEN [sender_email |-> "", sender_password |-> ""]
                    ELSE [sender_email |-> r.row.sender_email,
                          sender_password |-> r.row.sender_password]
       /\ desk_mail' = [NoMail EXCEPT !.op = "open"]
       /\ UNCHANGED <<desk_students, desk_last, desk_view, email_settings>>
       /\ UNCHANGED retryVars
       /\ UNCHANGED webVars
       /\ UNCHANGED fnVars
       /\ UNCHANGED concVars

\* the button Send Bulk Emails, up to the first recipient
SendBulkEmails(year, department, status_filter, confirm, busy) ==
    /\ desk_mail.outcome \notin {"running", "destroyed"}
    /\ desk_mail' = send_bulk_emails(desk_students, sender, year, department,
                                     status_filter, confirm, busy)
    /\ UNCHANGED <<desk_students, desk_last, desk_view, email_settings, sender>>
    /\ UNCHANGED retryVars
    /\ UNCHANGED webVars
    /\ UNCHANGED fnVars
    /\ UNCHANGED concVars

\* one round of the loop of send_bulk_emails
SendNext(pdf_ok, smtp_ok, window) ==
    /\ desk_mail.outcome = "running"
    /\ desk_mail' = UpdateDisplay(SendOne(desk_mail, desk_students, pdf_ok, smtp_ok), window)
    /\ UNCHANGED <<desk_students, desk_last, desk_view, email_settings, sender>>
    /\ UNCHANGED retryVars
    /\ UNCHANGED webVars
    /\ UNCHANGED fnVars
    /\ UNCHANGED concVars

\* the loop goes on in a destroyed window: the next round, or the summary
\* when there is none, raises TclError out of send_bulk_emails
SendAfterClose(pdf_ok, smtp_ok) ==
    /\ desk_mail.outcome = "destroyed"
    /\ desk_mail' =
          [(IF Len(desk_mail.done) = Len(desk_mail.list) THEN desk_mail
            ELSE SendOneUncounted(desk_mail, desk_students, pdf_ok, smtp_ok))
           EXCEPT !.outcome = "raised"]
    /\ UNCHANGED <<desk_students, desk_last, desk_view, email_settings, sender>>
    /\ UNCHANGED retryVars
    /\ UNCHANGED webVars
    /\ UNCHANGED fnVars
    /\ UNCHANGED concVars

\* ---- calls at work at the same time -------------------------------------
\* every reading call in progress has the store committed now among snaps
Observed(ss, db, subjs) ==
    [pid \in DOMAIN ss |->
        IF ss[pid].op = "get_student_details_and_data" /\ ss[pid].phase = "run"
        THEN [ss[pid] EXCEPT !.snaps = @ \cup {ReadAtOnce(db, subjs, ss[pid].arg)}]
        ELSE ss[pid]]

\* the commits made so far by the calls that returned
CommitsSoFar(ss) == Cardinality({ pid \in DOMAIN ss : ss[pid].ret.ok })

\* a request calls add_or_update_student
UpsertBegin(pid, a) ==
    /\ sessions[pid].phase = "idle"
    /\ sessions' = [sessions EXCEPT ![pid] =
                       [NoSession EXCEPT !.op = "add_or_update_student", !.arg = a,
                                         !.phase = "run", !.pc = 1]]
    /\ UNCHANGED writer
    /\ UNCHANGED webVars
    /\ UNCHANGED deskVars
    /\ UNCHANGED fnVars

\* the call on connection pid runs its next statement, or gives up waiting
UpsertNext(pid, timed_out) ==
    /\ sessions[pid].op = "add_or_update_student" /\ sessions[pid].phase = "run"
    /\ timed_out <=> writer \notin {0, pid}
    /\ \E r \in {UpsertStep(Store, sessions[pid], writer, pid, timed_out)} :
          /\ students' = r.db.students
          /\ marks' = r.db.marks
          /\ attendance' = r.db.attendance
          /\ writer' = r.holder
          /\ sessions' =
                Observed([sessions EXCEPT ![pid] =
                             IF r.s.ret.ok
                             THEN [r.s EXCEPT !.ret.at = CommitsSoFar(sessions) + 1]
                             ELSE r.s],
                         r.db, subjects)
    /\ UNCHANGED <<departments, subjects, settings, last>>
    /\ UNCHANGED deskVars
    /\ UNCHANGED fnVars

\* a request calls get_student_details_and_data
DetailsBegin(pid, sid) ==
    /\ sessions[pid].phase = "idle"
    /\ sessions' = [sessions EXCEPT ![pid] =
                       [NoSession EXCEPT !.op = "get_student_details_and_data",
                                         !.arg = sid, !.phase = "run", !.pc = 1,
                                         !.snaps = {ReadAtOnce(Store, subjects, sid)}]]
    /\ UNCHANGED writer
    /\ UNCHANGED webVars
    /\ UNCHANGED deskVars
    /\ UNCHANGED fnVars

\* the reading call runs its next SELECT
DetailsNext(pid) ==
    /\ sessions[pid].op = "get_student_details_and_data" /\ sessions[pid].phase = "run"
    /\ sessions' = [sessions EXCEPT ![pid] = DetailsStep(Store, subjects, sessions[pid])]
    /\ UNCHANGED writer
    /\ UNCHANGED webVars
    /\ UNCHANGED deskVars
    /\ UNCHANGED fnVars

\* POST /subjects while no other call is at work
AddSubjectBetween(code, max_marks) ==
    /\ writer = 0
    /\ \A pid \in Connections : sessions[pid].phase # "run"
    /\ AddSubject(code, max_marks)

\* an application process calls add_student; the calls already at work and
\* the stored ids are noted
DeskAddBegin(pid, a) ==
    /\ sessions[pid].phase # "run"
    /\ sessions' =
          [q \in Connections |->
             IF q = pid
             THEN [NoSession EXCEPT
                     !.op = "add_student", !.arg = a, !.phase = "run", !.pc = 1,
                     !.began = [peers |-> { r \in Connections \ {pid} :
                                              sessions[r].phase = "run" },
                                ids |-> IdsIn(desk_students)]]
             ELSE [sessions[q] EXCEPT !.began.peers = @ \ {pid}]]
    /\ UNCHANGED writer
    /\ UNCHANGED webVars
    /\ UNCHANGED deskVars
    /\ UNCHANGED fnVars

\* the call of process pid runs its next statement, or its wait for the
\* write lock runs out; collected: the interpreter frees the connection of
\* a call that returned without closing it at once
DeskAddNext(pid, timed_out, collected) ==
    /\ sessions[pid].op = "add_student" /\ sessions[pid].phase = "run"
    /\ timed_out <=> (sessions[pid].pc = 1 /\ writer \notin {0, pid})
    /\ \E r \in {AddStep(desk_students, sessions[pid], writer, pid, timed_out, collected)} :
          /\ desk_students' = r.students
          /\ writer' = r.holder
          /\ sessions' = [sessions EXCEPT ![pid] = r.s]
          /\ desk_last' = IF r.s.phase = "done"
                          THEN [op |-> "add_student", sid |-> r.s.arg.student_id,
                                ok |-> r.s.ret.ok, msg |-> r.s.ret.msg,
                                attempts |-> r.s.attempt + 1]
                          ELSE desk_last
    /\ UNCHANGED <<desk_view, running, locked>>
    /\ UNCHANGED deskMailVars
    /\ UNCHANGED webVars
    /\ UNCHANGED fnVars

\* the garbage collector frees the connection that was left open: its
\* transaction is rolled back and the write lock released
CollectConnection ==
    /\ writer = Abandoned
    /\ writer' = 0
    /\ UNCHANGED sessions
    /\ UNCHANGED webVars
    /\ UNCHANGED deskVars
    /\ UNCHANGED fnVars

CallGetStatus ==
    /\ call.fn = "get_status" /\ ~ret.done
    /\ ret' = [done |-> TRUE, raised |-> FALSE, label |-> get_status(call.p), val |-> 0]
    /\ UNCHANGED <<call>>
    /\ UNCHANGED webVars
    /\ UNCHANGED deskVars
    /\ UNCHANGED concVars

CallCalculateGrade ==
    /\ call.fn = "calculate_grade" /\ ~ret.done
    /\ ret' = [done |-> TRUE, raised |-> FALSE, label |-> calculate_grade(call.p), val |-> 0]
    /\ UNCHANGED <<call>>
    /\ UNCHANGED webVars
    /\ UNCHANGED deskVars
    /\ UNCHANGED concVars

CallCalculatePercentage ==
    /\ call.fn = "calculate_percentage" /\ ~ret.done
    /\ LET r == calculate_percentage(call.total, call.present)
       IN ret' = [done |-> TRUE, raised |-> r.raised, label |-> "", val |-> r.val]
    /\ UNCHANGED <<call>>
    /\ UNCHANGED webVars
    /\ UNCHANGED deskVars
    /\ UNCHANGED concVars

\* ------------------------------------------------------------------------
\* Specifications
\* ------------------------------------------------------------------------
\* the web variant, one request at a time
Next ==
    \/ \E a \in UpsertArgs, fault \in 0..MaxFault : Upsert(a, fault)
    \/ \E code \in SubjectCodes, m \in MaxMarksInputs : AddSubject(code, m)

Spec == Init /\ [][Next]_vars

\* the portal: requests to POST /students and POST /subjects, and the summary
NextPortal ==
    \/ \E payload \in PortalPayloads : ApiCreateOrUpdateStudent(payload, 0)
    \/ \E x \in PortalSubjects : AddSubject(x.code, x.max_marks)
    \/ GetAllStudentsSummary

SpecPortal == Init /\ [][NextPortal]_vars

\* the store written by requests, with the application started again
\* between them
NextInit ==
    \/ \E fault \in BOOLEAN : InitDatabase(fault)
    \/ \E payload \in InitPayloads : ApiCreateOrUpdateStudent(payload, 0)
    \/ \E x \in PortalSubjects : AddSubject(x.code, x.max_marks)
    \/ \E form \in MailForms : SaveEmailSettings(form)

SpecInit == Init /\ [][NextInit]_vars

\* the desktop variant, one operation at a time
NextDesk ==
    \/ \E a \in DeskArgs, busy \in 0..max_retries : AddStudent(a, busy)
    \/ \E a \in DeskArgs, busy \in 0..max_retries : UpdateStudent(a, busy)
    \/ \E sid \in StudentIds, busy \in 0..max_retries : DeleteStudent(sid, busy)

SpecDesk == Init /\ [][NextDesk]_vars

\* the desktop variant with its reading operations; the store is locked
\* through the first busy attempts of a call
NextDeskView ==
    \/ \E a \in ViewArgs, busy \in ViewBusy : AddStudent(a, busy)
    \/ \E sid \in ViewIds : DeleteStudent(sid, 0)
    \/ \E busy \in ViewBusy : GetAllStudents(busy)
    \/ \E y \in ViewYears, d \in ViewDepartments, busy \in ViewBusy :
          GetStudentsByYearDept(y, d, busy)
    \/ \E sid \in ViewIds, busy \in ViewBusy : SearchStudent(sid, busy)
    \/ \E term \in ViewTerms, busy \in ViewBusy : SearchByName(term, busy)
    \/ \E st \in ViewStatuses, busy \in ViewBusy : FilterByStatus(st, busy)

SpecDeskView == Init /\ [][NextDeskView]_vars

\* the desktop operations followed through their retry loops, while another
\* connection locks and unlocks the store; the thread of the call keeps
\* running: an attempt that is due is made, on the store as it then is, and
\* a sleep ends
Attempt == AttemptLocked \/ AttemptThroughStore

NextRetry ==
    \/ \E op \in WriteOps \cup ReadOps, arg \in RetryArgs : StartCall(op, arg)
    \/ Attempt
    \/ SleepThenRetry
    \/ FinishCall
    \/ OtherConnection

SpecRetry ==
    /\ Init
    /\ [][NextRetry]_vars
    /\ WF_vars(Attempt)
    /\ WF_vars(SleepThenRetry)

\* the mail operations of both variants, with the requests that store the
\* student they mail to
NextMail ==
    \/ \E payload \in MailPayloads : ApiCreateOrUpdateStudent(payload, 0)
    \/ \E form \in MailForms : SaveEmailSettings(form)
    \/ \E sid \in StudentIds, installed \in BOOLEAN, smtp_ok \in BOOLEAN :
          EmailReportToStudent(sid, installed, smtp_ok)
    \/ \E a \in MailDeskArgs : AddStudent(a, 0)
    \/ \E form \in MailForms, busy \in ViewBusy : SaveEmailConfig(form, busy)
    \/ \E busy \in ViewBusy : OpenApplication(busy)
    \/ \E st \in ViewStatuses, confirm \in BOOLEAN, busy \in ViewBusy :
          SendBulkEmails("All", "All", st, confirm, busy)
    \/ \E pdf_ok \in BOOLEAN, smtp_ok \in BOOLEAN, window \in Windows :
          SendNext(pdf_ok, smtp_ok, window)
    \/ \E pdf_ok \in BOOLEAN, smtp_ok \in BOOLEAN : SendAfterClose(pdf_ok, smtp_ok)

SpecMail == Init /\ [][NextMail]_vars

\* a bulk e-mail run round by round, while students are added and deleted;
\* a run that was started goes on until it ends
BulkRound ==
    \/ \E pdf_ok \in BOOLEAN, smtp_ok \in BOOLEAN, window \in Windows :
          SendNext(pdf_ok, smtp_ok, window)
    \/ \E pdf_ok \in BOOLEAN, smtp_ok \in BOOLEAN : SendAfterClose(pdf_ok, smtp_ok)

NextBulk ==
    \/ \E a \in BulkDeskArgs : AddStudent(a, 0)
    \/ \E sid \in StudentIds : DeleteStudent(sid, 0)
    \/ \E form \in BulkForms : SaveEmailConfig(form, 0)
    \/ \E st \in ViewStatuses, confirm \in BOOLEAN :
          SendBulkEmails("All", "All", st, confirm, 0)
    \/ BulkRound

SpecBulk == Init /\ [][NextBulk]_vars /\ WF_vars(BulkRound)

\* students added and updated while the threshold of the settings changes
NextThreshold ==
    \/ \E a \in ThresholdArgs : AddStudent(a, 0)
    \/ \E a \in ThresholdArgs : UpdateStudent(a, 0)
    \/ \E form \in ThresholdForms : SaveEmailConfig(form, 0)

SpecThreshold == Init /\ [][NextThreshold]_vars

\* two upserts of one student and a read of the student, at the same time
NextShared ==
    \/ \E a \in SharedArgs1 : UpsertBegin(1, a)
    \/ \E a \in SharedArgs2 : UpsertBegin(2, a)
    \/ \E pid \in {1, 2}, timed_out \in BOOLEAN : UpsertNext(pid, timed_out)
    \/ DetailsBegin(3, "S1")
    \/ DetailsNext(3)
    \/ AddSubjectBetween("PHY01", 100)

SpecShared == Init /\ [][NextShared]_vars

\* two application processes on one store file, adding students
NextSharedDesk ==
    \/ \E a \in SharedDeskArgs1 : DeskAddBegin(1, a)
    \/ \E a \in SharedDeskArgs2 : DeskAddBegin(2, a)
    \/ \E pid \in {1, 2}, timed_out \in BOOLEAN, collected \in BOOLEAN :
          DeskAddNext(pid, timed_out, collected)
    \/ CollectConnection

SpecSharedDesk == Init /\ [][NextSharedDesk]_vars

\* the pure functions on every input of the bounded ranges
NextFn ==
    \/ CallGetStatus
    \/ CallCalculateGrade
    \/ CallCalculatePercentage

SpecFn == InitFn /\ [][NextFn]_vars

\* ------------------------------------------------------------------------
\* Claims on the web variant (checked under Spec)
\* ------------------------------------------------------------------------
SubjectCodesStored == { x.subject_code : x \in subjects }

Abs(x) == IF x < 0 THEN 0 - x ELSE x

\* the store a result r of add_or_update_student leaves
StoreAfter(r) == [departments |-> departments, students |-> r.students,
                  marks |-> r.marks, attendance |-> r.attendance]

\* no row of the table occurs twice, and no key (student, k) has two rows
NoDuplicate(table, KeyOf(_)) ==
    /\ \A r \in BagToSet(table) : CopiesIn(r, table) = 1
    /\ \A r1, r2 \in BagToSet(table) : KeyOf(r1) = KeyOf(r2) => r1 = r2

MarkKey(r) == <<r.student_id, r.subject_code>>
AttKey(r) == <<r.student_id, r.month>>

\* C1: an add_or_update_student call that fails, at whichever statement,
\* leaves the student rows, the Mark rows and the Attendance rows of every
\* student exactly as they were before the call.
C1_FailedUpsertLeavesStore ==
    [][ (last'.op = "upsert" /\ ~last'.ok)
          => (students' = students /\ marks' = marks /\ attendance' = attendance) ]_vars

\* a call failed after it had written the student row, deleted the old detail
\* rows and inserted a detail row, for a student with stored rows of both
\* kinds, while another student has rows too
C1_Witness ==
    /\ last.op = "upsert" /\ ~last.ok /\ last.n >= 4
    /\ RowsOf(marks, last.sid) # {} /\ RowsOf(attendance, last.sid) # {}
    /\ \E o \in DOMAIN students \ {last.sid} : RowsOf(marks, o) # {}

\* the codes of the payload's present mark entries that no subject row has
UnknownCodes(a) ==
    { a.marks_data[i].key : i \in { j \in 1..Len(a.marks_data) :
          /\ MarkPresent(a.marks_data[j].value)
          /\ a.marks_data[j].key \notin SubjectCodesStored } }

\* C2: an upsert whose marks mapping has an entry for a subject code that is
\* not in the subjects table fails, stores no Mark row for that code and
\* leaves the student's Mark and Attendance rows untouched.
C2_UnknownSubjectFails ==
    \A a \in UpsertArgs :
        UnknownCodes(a) # {} =>
            \A r \in {add_or_update_student(Store, a, 0)} :
                /\ ~r.ok
                /\ \A x \in RowsOf(r.marks, a.student_id) :
                       x.subject_code \notin UnknownCodes(a)
                /\ RowsOf(r.marks, a.student_id) = RowsOf(marks, a.student_id)
                /\ RowsOf(r.attendance, a.student_id) = RowsOf(attendance, a.student_id)

\* C3: in every store the program reaches and for every payload, an upsert
\* that succeeds, called again with the same payload, succeeds again and
\* leaves the same Mark and Attendance rows, none of them twice.
C3_UpsertIdempotent ==
    \A a \in UpsertArgs :
        \A r1 \in {add_or_update_student(Store, a, 0)} :
            r1.ok =>
                \A r2 \in {add_or_update_student(StoreAfter(r1), a, 0)} :
                    /\ r2.ok
                    /\ r2.marks = r1.marks
                    /\ r2.attendance = r1.attendance
                    /\ NoDuplicate(r2.marks, MarkKey)
                    /\ NoDuplicate(r2.attendance, AttKey)

\* a successful upsert stored again the student and the detail rows that an
\* earlier upsert had stored
C3_Witness ==
    /\ last.op = "upsert" /\ last.ok /\ "same" \in last.notes
    /\ RowsOf(marks, last.sid) # {} /\ RowsOf(attendance, last.sid) # {}

\* the payload's mark entries whose value is present and not blank, as rows
NonBlank(v) ==
    /\ v # PyNone
    /\ (v.kind = "str" => \E i \in 1..Len(v.s) : v.s[i] # " ")

WantedMarks(a) ==
    { [student_id |-> a.student_id, subject_code |-> a.marks_data[i].key,
       marks |-> FloatOf(a.marks_data[i].value).val] :
        i \in { j \in 1..Len(a.marks_data) : NonBlank(a.marks_data[j].value) } }

\* C4: in every store the program reaches and for every payload, after a
\* successful upsert the student's Mark rows are exactly the payload's
\* present, non-blank entries, one row each; nothing stored before survives.
C4_MarksReplaced ==
    \A a \in UpsertArgs :
        \A r \in {add_or_update_student(Store, a, 0)} :
            r.ok => /\ RowsOf(r.marks, a.student_id) = WantedMarks(a)
                    /\ NoDuplicate(r.marks, MarkKey)

\* a successful upsert met Mark rows of an earlier submission and left the
\* student with a Mark row, after a row of the earlier submission was dropped
C4_Witness ==
    /\ last.op = "upsert" /\ last.ok /\ {"replaced", "dropped"} \subseteq last.notes
    /\ RowsOf(marks, last.sid) # {}

\* the payload's month entries with held > 0, as rows
WantedAttendance(a) ==
    { [student_id |-> a.student_id, month |-> a.attendance_data[i].key,
       classes_held |-> a.attendance_data[i].value.held.n,
       classes_attended |-> DictGet(a.attendance_data[i].value, "attended", PyNum(0)).n] :
        i \in { j \in 1..Len(a.attendance_data) :
                  /\ "held" \in DOMAIN a.attendance_data[j].value
                  /\ a.attendance_data[j].value.held.n > 0 } }

\* C5: in every store the program reaches and for every payload, after a
\* successful upsert the student's Attendance rows are exactly the payload's
\* month entries with held > 0; an entry with held = 0 or without held gives
\* no row, and the row stored for that month before is gone.
C5_AttendanceReplaced ==
    \A a \in UpsertArgs :
        \A r \in {add_or_update_student(Store, a, 0)} :
            r.ok => /\ RowsOf(r.attendance, a.student_id) = WantedAttendance(a)
                    /\ NoDuplicate(r.attendance, AttKey)

\* a successful upsert with a month entry of held = 0 (or no held) removed
\* the Attendance row stored before and stored none
C5_Witness ==
    /\ last.op = "upsert" /\ last.ok
    /\ {"replaced", "dropped", "zero_held"} \subseteq last.notes
    /\ RowsOf(attendance, last.sid) = {}

\* C10: no Mark row and no Attendance row refers to a student identifier
\* that has no student row; replacing a student row goes with the removal of
\* the detail rows it owned.
C10_NoOrphanDetailRows ==
    /\ \A r \in BagToSet(marks) : r.student_id \in DOMAIN students
    /\ \A r \in BagToSet(attendance) : r.student_id \in DOMAIN students

\* a student row was replaced and detail rows it owned were removed, while
\* detail rows are stored
C10_Witness ==
    /\ last.op = "upsert" /\ last.ok /\ {"replaced", "dropped"} \subseteq last.notes
    /\ BagToSet(marks) # {} /\ BagToSet(attendance) # {}

\* C20: in every state reached by upserts, successful or failed, no
\* (student, subject code) has two Mark rows and no (student, month) has two
\* Attendance rows.
C20_DetailRowsUnique ==
    /\ NoDuplicate(marks, MarkKey)
    /\ NoDuplicate(attendance, AttKey)

\* an upsert failed on a student who keeps a Mark row and an Attendance row,
\* after an earlier upsert had replaced rows, while another student has a
\* Mark row for the same subject
C20_Witness ==
    /\ last.op = "upsert" /\ ~last.ok /\ last.n >= 3
    /\ RowsOf(marks, last.sid) # {} /\ RowsOf(attendance, last.sid) # {}
    /\ \E o \in DOMAIN students \ {last.sid} :
          \E x \in RowsOf(marks, o), y \in RowsOf(marks, last.sid) :
              x.subject_code = y.subject_code

\* ------------------------------------------------------------------------
\* Claims on the portal (checked under SpecPortal)
\* ------------------------------------------------------------------------
SummaryRows == get_all_students_summary(Store, subjects)

\* C11: get_all_students_summary returns exactly one row for every student
\* stored, also for a student saved under a department name that matched no
\* department.
C11_SummaryHasEveryStudent ==
    last.op = "summary" =>
        \A sid \in DOMAIN students :
            Cardinality({ row \in SummaryRows : row.student_id = sid }) = 1

C15_EmptyIdentityRejected ==
    \A payload \in PortalPayloads :
        (ApiArgs(payload).student_id = "" \/ ApiArgs(payload).name = "") =>
            \A r \in {api_create_or_update_student(Store, payload, 0)} :
                /\ ~r.ok
                /\ r.students = students
                /\ r.marks = marks
                /\ r.attendance = attendance

\* the sums the percentages of a student are taken from
SumHeld(sid) == SumVal({ [row |-> r, val |-> r.classes_held] : r \in RowsOf(attendance, sid) })
SumAttended(sid) ==
    SumVal({ [row |-> r, val |-> r.classes_attended] : r \in RowsOf(attendance, sid) })
MarksWithSubject(sid) ==
    { r \in RowsOf(marks, sid) : r.subject_code \in SubjectCodesStored }
SumMarks(sid) == SumVal({ [row |-> r, val |-> r.marks] : r \in MarksWithSubject(sid) })
SumMax(sid) ==
    SumVal({ [row |-> r,
              val |-> (CHOOSE x \in subjects : x.subject_code = r.subject_code).max_marks] :
               r \in MarksWithSubject(sid) })

\* pct, in hundredths, is num / den * 100 to the nearest hundredth
IsPercentOf(pct, num, den) == 2 * Abs(pct * den - num * 10000) <= Abs(den)

AttendancePercentOK(row) ==
    IF RowsOf(attendance, row.student_id) = {} THEN row.att_percent = 0
    ELSE IsPercentOf(row.att_percent, SumAttended(row.student_id), SumHeld(row.student_id))

\* C18, as stated: for every row of the summary the attendance percentage is
\* sum(classes_attended) / sum(classes_held) * 100 and the marks percentage is
\* sum(marks) / sum(max_marks) * 100 over the Mark rows joined to their
\* subjects, each 0 when there are no such rows or the denominator is 0.
C18_AsStated ==
    last.op = "summary" =>
        \A row \in SummaryRows :
            /\ AttendancePercentOK(row)
            /\ IF MarksWithSubject(row.student_id) = {} \/ SumMax(row.student_id) = 0
               THEN row.mark_percent = 0
               ELSE IsPercentOf(row.mark_percent, SumMarks(row.student_id),
                                SumMax(row.student_id))

\* C18, amended: as above, the marks percentage being 0 whenever
\* sum(max_marks) is 0 or negative.
C18_SummaryPercentages ==
    last.op = "summary" =>
        \A row \in SummaryRows :
            /\ AttendancePercentOK(row)
            /\ IF MarksWithSubject(row.student_id) = {} \/ SumMax(row.student_id) <= 0
               THEN row.mark_percent = 0
               ELSE IsPercentOf(row.mark_percent, SumMarks(row.student_id),
                                SumMax(row.student_id))

\* the summary gave 70.00% and 75.00% for a student with 18/20 and 10/20 and
\* with marks 80 and 70 against 100 each, and an attendance of 0.00% for a
\* student with no Attendance row
C18_Witness ==
    /\ last.op = "summary"
    /\ \E row \in SummaryRows :
          /\ row.att_percent = 7000 /\ row.mark_percent = 7500
          /\ Cardinality(RowsOf(attendance, row.student_id)) = 2
          /\ Cardinality(RowsOf(marks, row.student_id)) = 2
    /\ \E row \in SummaryRows :
          /\ RowsOf(attendance, row.student_id) = {}
          /\ row.att_percent = 0

\* ------------------------------------------------------------------------
\* Claims on the desktop variant (checked under SpecDesk)
\* ------------------------------------------------------------------------
\* the stored aggregates of every row are derived from its stored counts,
\* the percentage being pct(total, present)
RowsDerived(pct(_, _)) ==
    \A i \in 1..Len(desk_students) :
        LET row == desk_students[i]
        IN /\ row.percentage = pct(row.total_classes, row.present_classes)
           /\ row.status = get_status(row.percentage)

\* round(present / total * 100, 2), and 0.0 when total is 0
PctZeroAtZero(total, present) ==
    IF total = 0 THEN 0 ELSE PyPercent(total, present).val

\* round(present / total * 100, 2), and 0.0 when total is 0 or less
PctZeroUpToZero(total, present) ==
    IF total <= 0 THEN 0 ELSE PyPercent(total, present).val

\* C6, as stated: every stored row has percentage = round(present_classes /
\* total_classes * 100, 2), 0.0 when total_classes is 0, and
\* status = get_status(percentage).
C6_AsStated == RowsDerived(PctZeroAtZero)

\* C6, amended: every stored row has percentage = round(present_classes /
\* total_classes * 100, 2) when total_classes > 0 and 0.0 when total_classes
\* is 0 or negative, and status = get_status(percentage).
C6_RowsDerived == RowsDerived(PctZeroUpToZero)

\* an update wrote a row with a negative total and present classes, stored
\* with percentage 0.0, next to a row with a positive total
C6_Witness ==
    /\ desk_last.op = "update_student" /\ desk_last.ok
    /\ \E i \in 1..Len(desk_students) :
          /\ desk_students[i].student_id = desk_last.sid
          /\ desk_students[i].total_classes < 0
          /\ desk_students[i].present_classes > 0
          /\ desk_students[i].percentage = 0
    /\ \E o \in 1..Len(desk_students) :
          /\ desk_students[o].total_classes > 0
          /\ desk_students[o].percentage = 5000

C27_MissingStudentReported ==
    /\ \A a \in DeskArgs, busy \in 0..max_retries :
          a.student_id \notin IdsIn(desk_students) =>
              \A r \in {update_student(desk_students, a, busy)} :
                  r.students = desk_students /\ ~r.ok
    /\ \A sid \in StudentIds, busy \in 0..max_retries :
          sid \notin IdsIn(desk_students) =>
              \A r \in {delete_student(desk_students, sid, busy)} :
                  r.students = desk_students /\ ~r.ok

\* the rows of the students other than sid, in row order
OtherRows(tbl, sid) == SelectSeq(tbl, LAMBDA r : r.student_id # sid)

\* C28: add_student, update_student and delete_student applied to student X
\* leave the row of every other student as it was, and update_student
\* leaves X's student_id and created_date as they were.
C28_OtherRowsUntouched ==
    /\ \A a \in DeskArgs, busy \in 0..max_retries :
          /\ \A r \in {add_student(desk_students, a, busy)} :
                OtherRows(r.students, a.student_id) =
                    OtherRows(desk_students, a.student_id)
          /\ \A r \in {update_student(desk_students, a, busy)} :
                /\ OtherRows(r.students, a.student_id) =
                      OtherRows(desk_students, a.student_id)
                /\ Len(r.students) = Len(desk_students)
                /\ \A i \in 1..Len(desk_students) :
                      desk_students[i].student_id = a.student_id =>
                          /\ r.students[i].student_id = a.student_id
                          /\ r.students[i].created_date = desk_students[i].created_date
    /\ \A sid \in StudentIds, busy \in 0..max_retries :
          \A r \in {delete_student(desk_students, sid, busy)} :
              OtherRows(r.students, sid) = OtherRows(desk_students, sid)

\* a student added on the first day was updated, with a student of the
\* second day stored beside it
C28_Witness ==
    /\ desk_last.op = "update_student" /\ desk_last.ok
    /\ Len(desk_students) = 2
    /\ \E i, j \in 1..Len(desk_students) :
          /\ desk_students[i].student_id = desk_last.sid
          /\ desk_students[i].created_date = "2024-01-01"
          /\ desk_students[j].student_id # desk_last.sid
          /\ desk_students[j].created_date = "2024-01-02"

\* ------------------------------------------------------------------------
\* Claims on the reading operations (checked under SpecDeskView)
\* ------------------------------------------------------------------------
\* C14: when the store stays locked through every attempt, the result of the
\* call carries the error: a store-changing call returns the failure
\* "database is locked", and a reading call returns a value that is neither
\* the empty list nor None, the results of a call that found no data.
C14_ExhaustionCarriesError ==
    /\ (desk_last.op # "init" /\ ~desk_last.ok /\ desk_last.attempts = max_retries
            /\ desk_last.msg # "Student ID already exists!")
          => desk_last.msg = "database is locked"
    /\ desk_view.exhausted => desk_view.value \notin {PyList(<<>>), PyNone}

IsSortedBy(rows, column) ==
    \A i, j \in 1..Len(rows) : i < j => SortKey(rows[i], column) <= SortKey(rows[j], column)

ViewReturned(ops) == desk_view.op \in ops /\ ~desk_view.exhausted

\* C19, as stated: the rows returned by get_all_students,
\* get_students_by_year_dept, filter_by_status and search_by_name are in
\* alphabetic order of name.
C19_AsStated ==
    ViewReturned({"get_all_students", "get_students_by_year_dept", "filter_by_status",
                  "search_by_name"})
        => IsSortedBy(desk_view.value.rows, "name")

\* C19, amended: the rows returned by get_all_students and
\* get_students_by_year_dept are in alphabetic order of name; the rows
\* returned by filter_by_status are in descending order of percentage.
C19_ProjectionOrder ==
    /\ ViewReturned({"get_all_students", "get_students_by_year_dept"})
          => IsSortedBy(desk_view.value.rows, "name")
    /\ ViewReturned({"filter_by_status"})
          => IsSortedBy(desk_view.value.rows, "percentage DESC")

\* get_all_students returned the three students, stored in an order that is
\* not the order of their names
C19_Witness ==
    /\ ViewReturned({"get_all_students"})
    /\ Len(desk_view.value.rows) = 3
    /\ desk_view.value = get_all_students(desk_students, 0).value
    /\ ~IsSortedBy(desk_students, "name")

\* ------------------------------------------------------------------------
\* Claims on the retry loop (checked under SpecRetry)
\* ------------------------------------------------------------------------
\* the attempts of the running call are counted right and bounded: at most
\* max_retries = 3 attempts, a sleep between every two consecutive attempts
RetryCounts ==
    /\ running.tries <= 3
    /\ running.phase = "try" => (running.sleeps = running.tries /\ running.tries < 3)
    /\ running.phase \in {"sleep", "done"} => running.sleeps = running.tries - 1
    /\ running.met <= running.tries

\* a call that met the locked store on every attempt made 3 attempts and 2
\* sleeps and returned the failure; a call that returned otherwise got
\* through on the first attempt that met a store not locked
RetryOutcome ==
    running.phase = "done" =>
        IF running.met = running.tries
        THEN /\ running.tries = 3 /\ running.sleeps = 2
             /\ running.op \in WriteOps =>
                   (~desk_last.ok /\ desk_last.msg = "database is locked"
                      /\ desk_last.attempts = 3)
             /\ running.op \in ReadOps => (desk_view.exhausted /\ desk_view.attempts = 3)
        ELSE /\ running.tries = running.met + 1
             /\ running.op \in WriteOps =>
                   (desk_last.msg # "database is locked"
                      /\ desk_last.attempts = running.met + 1)
             /\ running.op \in ReadOps =>
                   (~desk_view.exhausted /\ desk_view.attempts = running.met + 1)

\* C13: a desktop store operation makes at most 3 attempts, with a sleep
\* between consecutive attempts; when the store is locked at every attempt it
\* makes exactly 3, never a 4th, and returns its final result; when the lock
\* is gone at attempt k <= 3 it gets through on attempt k; every call that
\* was started returns.
C13_RetryBounded ==
    /\ [](RetryCounts /\ RetryOutcome)
    /\ (running.phase = "try") ~> (running.phase = "done")

\* a call returned after three attempts on a locked store, and the store has
\* a student
C13_Witness ==
    /\ running.phase = "done" /\ running.met = 3 /\ running.tries = 3
    /\ running.sleeps = 2
    /\ locked
    /\ Len(desk_students) > 0

\* ------------------------------------------------------------------------
\* Claims on the mail operations (checked under SpecMail)
\* ------------------------------------------------------------------------
\* C17: a send with the sender e-mail or password not configured fails at
\* once: email_report_to_student returns "Email settings not configured."
\* having generated no report and submitted nothing to the mail server, and
\* send_bulk_emails ends with "Configure email settings first" having read
\* no student, generated no report and submitted nothing.
C17_NoCredentialsNoSend ==
    /\ (/\ last.op = "email_report_to_student"
        /\ (settings.smtp_email \in {PyNone, PyText("")}
              \/ settings.smtp_app_password \in {PyNone, PyText("")}))
          => (~last.ok /\ last.err = "Email settings not configured." /\ last.notes = {})
    /\ (/\ desk_mail.op = "send_bulk_emails"
        /\ (sender.sender_email = "" \/ sender.sender_password = ""))
          => /\ desk_mail.outcome = "not configured"
             /\ desk_mail.reads = 0
             /\ desk_mail.reports = 0
             /\ desk_mail.submissions = 0
             /\ desk_mail.success_count = 0 /\ desk_mail.fail_count = 0

\* both sends were refused for a missing password, each with a student
\* stored who has an e-mail address
C17_Witness ==
    /\ last.op = "email_report_to_student" /\ ~last.ok
    /\ last.err = "Email settings not configured."
    /\ settings.smtp_email = PyText("a@x") /\ settings.smtp_app_password = PyText("")
    /\ last.sid \in DOMAIN students /\ students[last.sid].email = "a@x"
    /\ desk_mail.op = "send_bulk_emails" /\ desk_mail.outcome = "not configured"
    /\ sender.sender_email = "a@x" /\ sender.sender_password = ""
    /\ \E i \in 1..Len(desk_students) : desk_students[i].email = "a@x"

\* C29: after startup and any sequence of save_email_config submissions, the
\* sender e-mail and password held in memory, which send_bulk_emails uses,
\* equal those of the stored email_settings row, and are both empty when
\* there is no row.
C29_SenderMatchesStore ==
    IF email_settings = {}
    THEN sender.sender_email = "" /\ sender.sender_password = ""
    ELSE \A row \in email_settings :
            /\ sender.sender_email = row.sender_email
            /\ sender.sender_password = row.sender_password

\* ------------------------------------------------------------------------
\* Claims on the bulk e-mail run (checked under SpecBulk)
\* ------------------------------------------------------------------------
\* a bulk run got as far as its loop
InBulkRun ==
    /\ desk_mail.op = "send_bulk_emails"
    /\ desk_mail.outcome \in {"running", "destroyed", "complete", "raised"}

\* C22, as stated: a bulk run over N recipients that has ended has processed
\* each recipient exactly once in list order and has
\* success_count + fail_count = N.
C22_AsStated ==
    (InBulkRun /\ desk_mail.outcome \in {"complete", "raised"})
        => /\ desk_mail.done = desk_mail.list
           /\ desk_mail.success_count + desk_mail.fail_count = Len(desk_mail.list)

\* the recipients processed so far are the first of the list, in list order,
\* no recipient is in the list twice, every processed recipient of an open
\* window is counted as a success or as a failure, and a completed run has
\* processed and counted all of them
BulkRunCounts ==
    InBulkRun =>
        /\ Len(desk_mail.done) <= Len(desk_mail.list)
        /\ desk_mail.done = SubSeq(desk_mail.list, 1, Len(desk_mail.done))
        /\ \A i, j \in 1..Len(desk_mail.list) :
              desk_mail.list[i] = desk_mail.list[j] => i = j
        /\ desk_mail.success_count + desk_mail.fail_count <= Len(desk_mail.done)
        /\ desk_mail.success_count <= desk_mail.submissions
        /\ desk_mail.submissions = desk_mail.reports
        /\ desk_mail.reports <= Len(desk_mail.done)
        /\ desk_mail.outcome \in {"running", "complete"}
              => desk_mail.success_count + desk_mail.fail_count = Len(desk_mail.done)
        /\ desk_mail.outcome = "complete"
              => /\ desk_mail.done = desk_mail.list
                 /\ desk_mail.success_count + desk_mail.fail_count = Len(desk_mail.list)

\* C22, amended: a bulk run over N recipients processes the recipients in
\* list order, each at most once; a failure of report generation or mail
\* submission is counted and the next recipient is processed; every run
\* ends, and a run during which the window is not closed ends with every
\* recipient processed once and success_count + fail_count = N, while a run
\* during which the window is closed ends by raising with
\* success_count + fail_count at most the number of recipients processed.
C22_BulkRunCounted ==
    /\ []BulkRunCounts
    /\ (desk_mail.outcome = "running") ~> (desk_mail.outcome \in {"complete", "raised"})

\* a run over two recipients completed, one mailed and one failed, in the
\* order of their names and not of their rows
C22_Witness ==
    /\ desk_mail.op = "send_bulk_emails" /\ desk_mail.outcome = "complete"
    /\ desk_mail.done = <<"S2", "S1">>
    /\ desk_mail.success_count = 1 /\ desk_mail.fail_count = 1
    /\ Len(desk_students) = 3 /\ desk_students[1].student_id = "S1"

\* ------------------------------------------------------------------------
\* Claims on the departments table (checked under SpecInit)
\* ------------------------------------------------------------------------
\* C24: the departments table is filled once from the fixed list of 12
\* departments and never changes: after any number of re-initialisations
\* and any upserts, add_subject and settings operations it holds exactly
\* the 12 initial (code, name) rows, no code and no name twice.
C24_DepartmentsFixed ==
    /\ departments = DefaultDepartments
    /\ Cardinality(departments) = 12
    /\ \A d, e \in departments :
          (d.dept_code = e.dept_code \/ d.dept_name = e.dept_name) => d = e
    /\ \A fault \in BOOLEAN : init_database(departments, fault) = departments
    /\ init_database({}, FALSE) = DefaultDepartments

\* C25: the month of every stored Attendance row is one of the 12 month
\* names Jan..Dec, whatever month keys the upsert payloads contained.
C25_MonthsOfTheYear ==
    \A r \in BagToSet(attendance) : \E i \in 1..Len(MONTHS) : r.month = MONTHS[i]

\* the application was started again on a store that holds a subject,
\* e-mail settings and a student of a department outside the list
C24_Witness ==
    /\ last.op = "init_database" /\ last.ok
    /\ subjects # {}
    /\ settings.smtp_email = PyText("a@x")
    /\ \E sid \in DOMAIN students : students[sid].dept_code = "OTH99"

\* ------------------------------------------------------------------------
\* Claims on the stored threshold (checked under SpecThreshold)
\* ------------------------------------------------------------------------
\* the status of a percentage under the cutoffs good and warning
StatusAtCutoffs(percentage, good, warning) ==
    IF percentage >= good THEN "Good"
    ELSE IF percentage >= warning THEN "Warning"
    ELSE "Critical"

\* the row is what the arguments alone determine, under the cutoffs 75 and 60
RowOfArguments(row, a) ==
    /\ row.student_id = a.student_id
    /\ row.percentage = PyPercent(a.total, a.present).val
    /\ row.status = StatusAtCutoffs(row.percentage, 7500, 6000)

\* C23: the percentage and status that add_student and update_student store
\* are determined by the arguments of the call alone, whatever
\* threshold_percentage save_email_settings has stored: two runs of the same
\* calls that differ in the thresholds saved store the same percentage and
\* status for every student.
C23_StatusIgnoresThreshold ==
    /\ \A i \in 1..Len(desk_students) :
          desk_students[i].status = StatusAtCutoffs(desk_students[i].percentage, 7500, 6000)
    /\ \A a \in ThresholdArgs :
          /\ \A r \in {add_student(desk_students, a, 0)} :
                r.ok => RowOfArguments(r.students[Len(r.students)], a)
          /\ \A r \in {update_student(desk_students, a, 0)} :
                \A i \in 1..Len(r.students) :
                    r.students[i].student_id = a.student_id
                        => RowOfArguments(r.students[i], a)

\* with a threshold of 90 stored, a student at 75 per cent is stored as
\* Good and one at 50 per cent as Critical
C23_Witness ==
    /\ \E i \in 1..Len(desk_students) :
          /\ desk_students[i].percentage = 7500
          /\ desk_students[i].status = "Good"
    /\ \E i \in 1..Len(desk_students) :
          /\ desk_students[i].percentage = 5000
          /\ desk_students[i].status = "Critical"
    /\ \E r \in email_settings : r.threshold = 90

\* ------------------------------------------------------------------------
\* Claims on calls at work together, web variant (checked under SpecShared)
\* ------------------------------------------------------------------------
\* the student row and the detail rows of student sid in tables
RowsFor(studs, ms, att, sid) ==
    [student |-> IF sid \in DOMAIN studs THEN PyDict(studs[sid]) ELSE PyNone,
     marks |-> RowsOf(ms, sid), attendance |-> RowsOf(att, sid)]

\* what is stored of student sid
StoredFor(sid) == RowsFor(students, marks, attendance, sid)

\* what one upsert with the arguments a, alone on the store, leaves of its student
ImageOf(a) ==
    The({ RowsFor(r.students, r.marks, r.attendance, a.student_id) :
            r \in {add_or_update_student(Store, a, 0)} })

\* nothing stored of a student
NothingStored == [student |-> PyNone, marks |-> {}, attendance |-> {}]

\* the writing calls that returned success
Succeeded == { pid \in {1, 2} : sessions[pid].phase = "done" /\ sessions[pid].ret.ok }

\* C21: when two add_or_update_student calls for one student_id with
\* different payloads run at the same time, the stored student row, Mark
\* rows and Attendance rows are at every moment those of one payload, never
\* a mixture; once both have returned they are those of the call that
\* committed last, and a call that failed (the lock taken, or an exception)
\* reports failure and has stored nothing.
C21_LastWriterWins ==
    /\ \/ StoredFor("S1") = NothingStored
       \/ \E a \in SharedArgs1 \cup SharedArgs2 : StoredFor("S1") = ImageOf(a)
    /\ (sessions[1].phase = "done" /\ sessions[2].phase = "done") =>
          /\ Succeeded = {} => StoredFor("S1") = NothingStored
          /\ \A pid \in Succeeded :
                (\A other \in Succeeded : sessions[other].ret.at <= sessions[pid].ret.at)
                    => StoredFor("S1") = ImageOf(sessions[pid].arg)
          /\ \A pid \in {1, 2} \ Succeeded : sessions[pid].ret.msg # ""

\* the second call gave up waiting for the lock of the first, which went on
\* to commit
C21_Witness ==
    /\ sessions[1].phase = "done" /\ sessions[1].ret.ok
    /\ sessions[2].phase = "done" /\ sessions[2].ret.msg = "database is locked"
    /\ StoredFor("S1") = ImageOf(sessions[1].arg)
    /\ StoredFor("S1") # ImageOf(sessions[2].arg)

\* C26: get_student_details_and_data(S) at work at the same time as an
\* upsert of S returns a student record, marks list and attendance list of
\* one committed state of the store: all three from before the upsert or
\* all three from after it.
C26_OneSnapshot ==
    (sessions[3].op = "get_student_details_and_data" /\ sessions[3].phase = "done")
        => sessions[3].ret \in sessions[3].snaps

\* ------------------------------------------------------------------------
\* Claims on add_student called by two processes (checked under SpecSharedDesk)
\* ------------------------------------------------------------------------
\* the calls of p and q were at work at the same time
Overlapped(p, q) == p \in sessions[q].began.peers \/ q \in sessions[p].began.peers

\* both processes called add_student with one student_id that was stored
\* under neither call's eyes, at the same time, and both calls returned
BothReturned(p, q) ==
    /\ sessions[p].op = "add_student" /\ sessions[p].phase = "done"
    /\ sessions[q].op = "add_student" /\ sessions[q].phase = "done"
    /\ sessions[p].arg.student_id = sessions[q].arg.student_id
    /\ sessions[p].arg.student_id \notin sessions[p].began.ids \cup sessions[q].began.ids
    /\ Overlapped(p, q)

\* the rows stored for a student_id
DeskRowsOf(sid) == SelectSeq(desk_students, LAMBDA r : r.student_id = sid)

\* C30: when two add_student calls with the same new student_id run at the
\* same time, exactly one of them reports success, the other one reports
\* failure, and the store holds exactly one row for the student_id, with
\* the values of the call that succeeded.
C30_ExactlyOneAdded ==
    BothReturned(1, 2) =>
        /\ sessions[1].ret.ok # sessions[2].ret.ok
        /\ \A p \in {1, 2} :
              sessions[p].ret.ok =>
                  DeskRowsOf(sessions[p].arg.student_id)
                      = <<DeskRow(sessions[p].arg, sessions[p].arg.today)>>

\* ------------------------------------------------------------------------
\* Claims on the pure functions (checked under SpecFn)
\* ------------------------------------------------------------------------
\* C7: get_status gives exactly one of Good, Warning, Critical for every
\* percentage, Good from 75 up, Warning from 60 up to below 75, Critical
\* below 60.
C7_StatusTiers ==
    (call.fn = "get_status" /\ ret.done) =>
        /\ ret.label \in {"Good", "Warning", "Critical"}
        /\ (ret.label = "Good" <=> call.p >= 7500)
        /\ (ret.label = "Warning" <=> (call.p >= 6000 /\ call.p < 7500))
        /\ (ret.label = "Critical" <=> call.p < 6000)
        /\ (call.p = 7500 => ret.label = "Good")
        /\ (call.p = 7499 => ret.label = "Warning")
        /\ (call.p = 6000 => ret.label = "Warning")
        /\ (call.p = 5999 => ret.label = "Critical")

\* get_status(75.00) returned Good
C7_Witness ==
    call.fn = "get_status" /\ ret.done /\ call.p = 7500 /\ ret.label = "Good"

\* the lower bound of each grade, in hundredths
GradeFloor ==
    ("O" :> 9000) @@ ("A+" :> 8000) @@ ("A" :> 7000) @@ ("B+" :> 6000)
    @@ ("B" :> 5000) @@ ("C" :> 4000)

\* C8: calculate_grade gives exactly one of O, A+, A, B+, B, C, F: the
\* grade with the highest lower bound (90, 80, 70, 60, 50, 40) that the
\* percentage reaches, F when it reaches none.
C8_GradeTiers ==
    (call.fn = "calculate_grade" /\ ret.done) =>
        /\ ret.label \in DOMAIN GradeFloor \cup {"F"}
        /\ (ret.label = "F" <=> call.p < 4000)
        /\ \A g \in DOMAIN GradeFloor :
              ret.label = g <=>
                  /\ call.p >= GradeFloor[g]
                  /\ \A h \in DOMAIN GradeFloor :
                        GradeFloor[h] > GradeFloor[g] => call.p < GradeFloor[h]

\* calculate_grade(89.99) returned A+
C8_Witness ==
    call.fn = "calculate_grade" /\ ret.done /\ call.p = 8999 /\ ret.label = "A+"

\* C9: calculate_percentage(total, present) never raises for non-negative
\* arguments, returns 0.0 when total = 0 and, when total > 0, returns
\* round(present / total * 100, 2): the hundredth nearest to the quotient.
C9_PercentageTotal ==
    (call.fn = "calculate_percentage" /\ ret.done) =>
        /\ ~ret.raised
        /\ (call.total = 0 => ret.val = 0)
        /\ (call.total > 0 =>
              /\ ret.val = PyPercent(call.total, call.present).val
              /\ 2 * Abs(ret.val * call.total - call.present * 10000) <= call.total)

\* calculate_percentage(3, 2) returned 66.67
C9_Witness ==
    /\ call.fn = "calculate_percentage" /\ ret.done
    /\ call.total = 3 /\ call.present = 2 /\ ret.val = 6667 /\ ~ret.raised

====
